---------------------------- MODULE Spec2Model ----------------------------
(***************************************************************************)
(* State-machine model of the interview-preparation scripts:               *)
(*   - nvda-latency-min-max-avg-window-size-k.py   (sliding-window stats)  *)
(*   - hardware_validation_deep_concepts.py        (MESI cache validator,  *)
(*                                                  TLB validator,         *)
(*                                                  out-of-order pipeline) *)
(*   - nvda-parse-log-print-line-before-after-target.py (grep w/ context)  *)
(*   - parse-ltssm-logfile.py                      (LTSSM trace analysis)  *)
(*   - appl-reverse-bits.py                        (bit reversal)          *)
(*   - 1-power_of_2.py                             (power-of-two tests)    *)
(*   - apple_silicon_validation_practice.py        (count_ones, two_sum,   *)
(*                                                  binary_search,         *)
(*                                                  RegisterSimulator)     *)
(*   - hamming_weight_deep_dive.py, two_sum_deep_dive.py,                  *)
(*     binary_search_deep_dive.py, register_simulator_deep_dive.py         *)
(*                                                 (variants of the above) *)
(* The scripts share no state, so every script has its own group of        *)
(* variables and its own specification; a specification leaves the other   *)
(* groups at their initial value.                                          *)
(***************************************************************************)
EXTENDS Integers, Sequences, FiniteSets, TLC

VARIABLES
    \* sliding_window_stats / sliding_window_stats_simple: one call
    sw_latencies, sw_k, sw_pc, sw_opt, sw_simple,
    \* A client of CacheCoherencyValidator: mesi_prog holds the read_request and
    \* write_request calls it still has to make, mesi_pc its position.  Of the
    \* instance, caches[core] is a dict address -> (data, state) and memory a
    \* dict address -> data; bus_appended holds the entries the last call
    \* appended to bus_transactions, mesi_call the last call and mesi_ret what
    \* it returned or raised
    mesi_prog, mesi_pc, caches, memory, bus_appended, mesi_call, mesi_ret,
    \* TLBValidator: its fields; tlb_call is the last virtual address
    \* translated, tlb_ret what translate_address returned, access_log the
    \* virtual pages of all calls so far, in order, and tlb_stats what
    \* get_statistics returned when it was the last call (<<>> otherwise)
    tlb, tlb_size, access_counter, hits, misses, page_faults, page_table,
    tlb_call, tlb_ret, access_log, tlb_stats,
    \* OutOfOrderProcessor: its fields.  instrs holds the Instruction objects
    \* issue_instruction accepted, in that order; the reorder buffer, the
    \* reservation stations and the execution units refer to them by their
    \* position in instrs (0 is None).  ooo_ret is what the last
    \* issue_instruction call returned, committed the instructions that left
    \* the reorder buffer, in the order they left.
    num_execution_units, reorder_buffer_size, instrs, reorder_buffer,
    reservation_stations, execution_units, register_file, register_busy,
    cycle, instructions_issued, instructions_completed, hazard_stalls,
    ooo_ret, committed,
    \* test_out_of_order_validation: its position, the instruction list, the
    \* loop indices, expected_results and the violations it is handed
    t_pc, t_program, t_i, t_cycle, t_expected, t_violations,
    \* grep_with_context: one call.  g_exists says whether file_path names a
    \* file, g_text is the decoded content of the file, a sequence of characters
    g_exists, g_text, g_pattern, g_pc, g_result,
    \* parse_ltssm_trace: one call.  l_ok says whether the CSV file could be
    \* read and every row converted; l_events are its rows, in file order
    l_ok, l_events, l_pc, l_analysis,
    \* reverse_bits, reverse_bits_optimized, reverse_bits_builtin: one call each
    rb_n, rb_pc, rb_out,
    \* is_power_of_two_basic (p2_cur is its local n inside the while loop)
    \* and is_power_of_two_bit_manipulation, with their results
    p2_n, p2_cur, p2_pc, p2_basic, p2_bit,
    \* count_ones_bit_manipulation (co_cur and co_count are its locals n, as a
    \* bit set, and count) and the results of every way of counting, in co_out
    co_n, co_cur, co_count, co_pc, co_out,
    \* two_sum and robust_two_sum: one call each, the results in ts_ret
    ts_nums, ts_target, ts_pc, ts_ret,
    \* binary_search or safe_binary_search (bs_fn): its arguments, its locals
    \* left and right, its result
    bs_fn, bs_arr, bs_target, bs_left, bs_right, bs_pc, bs_ret,
    \* RegisterSimulator / AdvancedRegisterSimulator: reg_class is the class
    \* of the object, reg_width its size / width, reg_value its register /
    \* value, reg_call the last call, reg_ret what it returned and reg_logged
    \* the entries it appended to history
    reg_class, reg_width, reg_value, reg_call, reg_ret, reg_logged

swVars == <<sw_latencies, sw_k, sw_pc, sw_opt, sw_simple>>

mesiVars == <<mesi_prog, mesi_pc, caches, memory, bus_appended, mesi_call, mesi_ret>>

tlbVars == <<tlb, tlb_size, access_counter, hits, misses, page_faults, page_table,
             tlb_call, tlb_ret, access_log, tlb_stats>>

oooVars == <<num_execution_units, reorder_buffer_size, instrs, reorder_buffer,
             reservation_stations, execution_units, register_file, register_busy,
             cycle, instructions_issued, instructions_completed, hazard_stalls,
             ooo_ret, committed>>

testVars == <<t_pc, t_program, t_i, t_cycle, t_expected, t_violations>>

grepVars == <<g_exists, g_text, g_pattern, g_pc, g_result>>

ltssmVars == <<l_ok, l_events, l_pc, l_analysis>>

rbVars == <<rb_n, rb_pc, rb_out>>

p2Vars == <<p2_n, p2_cur, p2_pc, p2_basic, p2_bit>>

coVars == <<co_n, co_cur, co_count, co_pc, co_out>>

tsVars == <<ts_nums, ts_target, ts_pc, ts_ret>>

bsVars == <<bs_fn, bs_arr, bs_target, bs_left, bs_right, bs_pc, bs_ret>>

regVars == <<reg_class, reg_width, reg_value, reg_call, reg_ret, reg_logged>>

vars == <<swVars, mesiVars, tlbVars, oooVars, testVars, grepVars, ltssmVars, rbVars,
          p2Vars, coVars, tsVars, bsVars, regVars>>

\* The groups of the hardware, window and grep scripts, and of the others.
hwVars == <<swVars, mesiVars, tlbVars, oooVars, testVars, grepVars>>

algoVars == <<ltssmVars, rbVars, p2Vars, coVars, tsVars, bsVars, regVars>>

\* What the operations of one script or class leave alone: the other groups.
notSw == <<mesiVars, tlbVars, oooVars, testVars, grepVars, algoVars>>

notMesi == <<swVars, tlbVars, oooVars, testVars, grepVars, algoVars>>

notTlb == <<swVars, mesiVars, oooVars, testVars, grepVars, algoVars>>

notOoo == <<swVars, mesiVars, tlbVars, grepVars, algoVars>>

notGrep == <<swVars, mesiVars, tlbVars, oooVars, testVars, algoVars>>

notLtssm == <<hwVars, rbVars, p2Vars, coVars, tsVars, bsVars, regVars>>

notRb == <<hwVars, ltssmVars, p2Vars, coVars, tsVars, bsVars, regVars>>

notP2 == <<hwVars, ltssmVars, rbVars, coVars, tsVars, bsVars, regVars>>

notCo == <<hwVars, ltssmVars, rbVars, p2Vars, tsVars, bsVars, regVars>>

notTs == <<hwVars, ltssmVars, rbVars, p2Vars, coVars, bsVars, regVars>>

notBs == <<hwVars, ltssmVars, rbVars, p2Vars, coVars, tsVars, regVars>>

notReg == <<hwVars, ltssmVars, rbVars, p2Vars, coVars, tsVars, bsVars>>

-----------------------------------------------------------------------------
(* Generic helpers                                                         *)

RECURSIVE Gcd(_, _)
Gcd(a, b) == IF b = 0 THEN a ELSE Gcd(b, a % b)

Abs(x) == IF x < 0 THEN -x ELSE x

\* All sequences over S of length 0..n.
SeqsUpTo(S, n) == UNION {[1..m -> S] : m \in 0..n}

Last(s) == s[Len(s)]

Front(s) == SubSeq(s, 1, Len(s) - 1)

\* Integers beyond 32 bits.  A non-negative integer is the set of the
\* positions of its 1 bits (bit 0 the least significant): & is intersection,
\* | is union, ^ is symmetric difference, x & ~m is set difference, and the
\* shifts move the positions.

\* 1 << i
Pow2(i) == 2 ^ i

\* The bit set of an integer 0 <= n < 2^31
BitsOf(n) == {i \in 0..30 : (n \div Pow2(i)) % 2 = 1}

\* The integer whose bit set is x
RECURSIVE ValOf(_)
ValOf(x) ==
    IF x = {} THEN 0
    ELSE LET i == CHOOSE j \in x : TRUE IN Pow2(i) + ValOf(x \ {i})

BitAnd(x, y) == x \cap y

BitOr(x, y) == x \cup y

BitXor(x, y) == (x \ y) \cup (y \ x)

\* x << k
Shl(x, k) == {i + k : i \in x}

\* x >> k
Shr(x, k) == {i - k : i \in {j \in x : j >= k}}

\* x + y
RECURSIVE BitAdd(_, _)
BitAdd(x, y) == IF y = {} THEN x ELSE BitAdd(BitXor(x, y), Shl(BitAnd(x, y), 1))

\* x * y
RECURSIVE BitMul(_, _)
BitMul(x, y) ==
    IF y = {} THEN {}
    ELSE LET i == CHOOSE j \in y : TRUE IN BitAdd(Shl(x, i), BitMul(x, y \ {i}))

\* The position of the highest 1 bit of x # 0
TopBit(x) == CHOOSE i \in x : \A j \in x : j <= i

\* IEEE-754 doubles.  A double is [m, e] and denotes m * 2^e, m an integer of
\* exactly 53 bits (bit 52 set); 0.0 is [{}, 0].
Double(m, e) == [m |-> m, e |-> e]

Zero == Double({}, 0)

\* The double nearest to x * 2^e, ties to even (x an integer, as a bit set)
RoundDouble(x, e) ==
    IF x = {} THEN Zero
    ELSE LET s == TopBit(x) - 52
         IN  IF s <= 0 THEN Double(Shl(x, 0 - s), e + s)
             ELSE LET kept == Shr(x, s)
                      low == {i \in x : i < s}
                      up == (s - 1) \in low /\ (low # {s - 1} \/ 0 \in kept)
                      r == IF up THEN BitAdd(kept, {0}) ELSE kept
                  IN  IF 53 \in r THEN Double(Shr(r, 1), e + s + 1) ELSE Double(r, e + s)

\* The number of fraction bits the long division below produces for a divisor
\* b: a quotient a / b with a >= 1 exceeds 2^-(TopBit + 1), so more than 53
\* significant bits are among them.
QuotientBits(b) == TopBit(BitsOf(b)) + 55

\* The bits of floor(r * 2^n / b) for 0 <= r < b, by long division
RECURSIVE FractionBits(_, _, _)
FractionBits(r, b, n) ==
    IF n = 0 THEN {}
    ELSE IF 2 * r >= b THEN {n - 1} \cup FractionBits(2 * r - b, b, n - 1)
    ELSE FractionBits(2 * r, b, n - 1)

\* (r * 2^n) % b
RECURSIVE FractionRest(_, _, _)
FractionRest(r, b, n) == IF n = 0 THEN r ELSE FractionRest((2 * r) % b, b, n - 1)

\* a / b for ints 0 <= a, 0 < b: the double nearest to the quotient.  The
\* quotient is cut after QuotientBits(b) fraction bits, with one more bit
\* that says whether anything was cut off.
IntTrueDiv(a, b) ==
    LET n == QuotientBits(b)
        q == BitOr(Shl(BitsOf(a \div b), n), FractionBits(a % b, b, n))
        sticky == IF FractionRest(a % b, b, n) # 0 THEN {0} ELSE {}
    IN  RoundDouble(BitOr(Shl(q, 1), sticky), 0 - (n + 1))

\* f * k for a double f and an int k >= 0
DoubleTimesInt(f, k) == RoundDouble(BitMul(f.m, BitsOf(k)), f.e)

\* x - y for x >= y
RECURSIVE BitSub(_, _)
BitSub(x, y) == IF y = {} THEN x ELSE BitSub(BitXor(x, y), Shl(y \ x, 1))

\* x <= y
BitLE(x, y) == x = y \/ TopBit(BitXor(x, y)) \in y

\* float(n) for an int 0 <= n < 2^31
FromInt(n) == RoundDouble(BitsOf(n), 0)

\* float(text) for the decimal text of n / d, d a power of ten: the double
\* nearest to the number written
FromDecimal(n, d) == IntTrueDiv(n, d)

\* The exponent two doubles are brought to before they are added or subtracted
CommonExponent(f, g) == IF f.e <= g.e THEN f.e ELSE g.e

\* The mantissa of f as an integer multiple of 2^e, e <= f.e
Aligned(f, e) == Shl(f.m, f.e - e)

\* f + g for doubles f, g >= 0
DoubleAdd(f, g) ==
    LET e == CommonExponent(f, g)
    IN  RoundDouble(BitAdd(Aligned(f, e), Aligned(g, e)), e)

\* f <= g for doubles f, g >= 0
DoubleLE(f, g) ==
    \/ f.m = {}
    \/ /\ g.m # {}
       /\ \/ f.e < g.e
          \/ f.e = g.e /\ BitLE(f.m, g.m)

\* f - g for doubles f >= g >= 0
DoubleSub(f, g) ==
    LET e == CommonExponent(f, g)
    IN  RoundDouble(BitSub(Aligned(f, e), Aligned(g, e)), e)


-----------------------------------------------------------------------------
(* nvda-latency-min-max-avg-window-size-k.py                               *)
(*                                                                         *)
(* Numbers.  A latency is a Python int; window_sum and the averages are    *)
(* IEEE-754 doubles.  A number is written [big, small] and denotes         *)
(*        big * B + small      with  B = 60 * 2^53  (an exact double).     *)
(* small stays below 32 in magnitude in this model (at most MaxLen + 1     *)
(* summands of at most MaxVal + 1), and the doubles around B are 64 apart  *)
(* (B lies in [2^58, 2^59)), so the double nearest to big * B + small is   *)
(* big * B whenever big # 0, and the number itself when big = 0.           *)
(* B / k is an exact double for k in 1..6 (60 is divisible by k).          *)

MaxLen == 4
MaxVal == 2

Num(b, s) == [big |-> b, small |-> s]

NumAdd(x, y) == Num(x.big + y.big, x.small + y.small)

NumSub(x, y) == Num(x.big - y.big, x.small - y.small)

\* x <= y on the denoted values (|small| is far below B).
NumLE(x, y) == x.big < y.big \/ (x.big = y.big /\ x.small <= y.small)

\* float(x): the double nearest to x.
ToFloat(x) == IF x.big # 0 THEN Num(x.big, 0) ELSE x

\* window_sum += current: a double plus an int, rounded to the nearest double.
FAdd(f, x) == ToFloat(NumAdd(f, ToFloat(x)))

\* window_sum -= latencies[i - k]
FSub(f, x) == ToFloat(NumSub(f, ToFloat(x)))

\* A reduced fraction n/d, d > 0.
Frac(n, d) == LET g == Gcd(Abs(n), d) IN <<n \div g, d \div g>>

\* window_sum / k for a double window_sum: the double nearest to the quotient,
\* named by the two exact quotients big/k (in units of B) and small/k.
FDiv(f, k) == [big |-> Frac(f.big, k), small |-> Frac(f.small, k)]

\* sum(window) / k for an int sum: Python's int true division is correctly
\* rounded, so the result is the double nearest to the exact quotient.
TrueDiv(x, k) == FDiv(ToFloat(x), k)

\* while min_deque and latencies[min_deque[-1]] >= current: min_deque.pop()
RECURSIVE PopWhileGE(_, _, _)
PopWhileGE(dq, lat, cur) ==
    IF dq # <<>> /\ NumLE(cur, lat[Last(dq) + 1])
    THEN PopWhileGE(Front(dq), lat, cur)
    ELSE dq

\* while max_deque and latencies[max_deque[-1]] <= current: max_deque.pop()
RECURSIVE PopWhileLE(_, _, _)
PopWhileLE(dq, lat, cur) ==
    IF dq # <<>> /\ NumLE(lat[Last(dq) + 1], cur)
    THEN PopWhileLE(Front(dq), lat, cur)
    ELSE dq

\* if dq[0] <= i - k: dq.popleft()
PopLeftExpired(dq, i, k) == IF Head(dq) <= i - k THEN Tail(dq) ELSE dq

\* One iteration of the for loop, i the 0-based index of the element.
SwStep(lat, k, i, st) ==
    LET current == lat[i + 1]
        ws1 == FAdd(st.window_sum, current)
        mn  == PopLeftExpired(Append(PopWhileGE(st.min_deque, lat, current), i), i, k)
        mx  == PopLeftExpired(Append(PopWhileLE(st.max_deque, lat, current), i), i, k)
        ws2 == IF i >= k - 1 /\ i >= k THEN FSub(ws1, lat[i - k + 1]) ELSE ws1
    IN  [min_deque  |-> mn,
         max_deque  |-> mx,
         window_sum |-> ws2,
         results    |-> IF i >= k - 1
                        THEN Append(st.results,
                                    <<lat[Head(mn) + 1], FDiv(ws2, k), lat[Head(mx) + 1]>>)
                        ELSE st.results]

RECURSIVE SwLoop(_, _, _, _)
SwLoop(lat, k, i, st) ==
    IF i >= Len(lat) THEN st ELSE SwLoop(lat, k, i + 1, SwStep(lat, k, i, st))

sliding_window_stats(lat, k) ==
    IF lat = <<>> \/ k <= 0 \/ k > Len(lat)
    THEN <<>>
    ELSE SwLoop(lat, k, 0, [min_deque  |-> <<>>,
                            max_deque  |-> <<>>,
                            window_sum |-> Num(0, 0),
                            results    |-> <<>>]).results

RECURSIVE SeqMin(_)
SeqMin(w) ==
    IF Len(w) = 1 THEN w[1]
    ELSE LET m == SeqMin(Front(w)) IN IF NumLE(m, Last(w)) THEN m ELSE Last(w)

RECURSIVE SeqMax(_)
SeqMax(w) ==
    IF Len(w) = 1 THEN w[1]
    ELSE LET m == SeqMax(Front(w)) IN IF NumLE(Last(w), m) THEN m ELSE Last(w)

\* sum(window): exact int arithmetic.
RECURSIVE SeqSum(_)
SeqSum(w) == IF w = <<>> THEN Num(0, 0) ELSE NumAdd(SeqSum(Front(w)), Last(w))

\* The tuple of the window starting at 0-based index i.
SimpleWindow(lat, k, i) ==
    LET window == SubSeq(lat, i + 1, i + k)
    IN  <<SeqMin(window), TrueDiv(SeqSum(window), k), SeqMax(window)>>

sliding_window_stats_simple(lat, k) ==
    IF lat = <<>> \/ k <= 0 \/ k > Len(lat)
    THEN <<>>
    ELSE [j \in 1..(Len(lat) - k + 1) |-> SimpleWindow(lat, k, j - 1)]

\* The latencies the model draws from: small ints and B itself.
SwVals == {Num(0, v) : v \in 0..MaxVal} \cup {Num(1, 0)}

SwInit ==
    /\ sw_latencies \in SeqsUpTo(SwVals, MaxLen)
    /\ sw_k \in (-1)..(MaxLen + 1)
    /\ sw_pc = "start"
    /\ sw_opt = <<>>
    /\ sw_simple = <<>>

SwIdle ==
    /\ sw_latencies = <<>>
    /\ sw_k = 0
    /\ sw_pc = "idle"
    /\ sw_opt = <<>>
    /\ sw_simple = <<>>

\* results_opt = sliding_window_stats(latencies, k)
SwCallOptimized ==
    /\ sw_pc = "start"
    /\ sw_opt' = sliding_window_stats(sw_latencies, sw_k)
    /\ sw_pc' = "optimized"
    /\ UNCHANGED <<sw_latencies, sw_k, sw_simple, notSw>>

\* results_simple = sliding_window_stats_simple(latencies, k)
SwCallSimple ==
    /\ sw_pc = "optimized"
    /\ sw_simple' = sliding_window_stats_simple(sw_latencies, sw_k)
    /\ sw_pc' = "done"
    /\ UNCHANGED <<sw_latencies, sw_k, sw_opt, notSw>>

SwNext == SwCallOptimized \/ SwCallSimple


-----------------------------------------------------------------------------
(* hardware_validation_deep_concepts.py, part 1: CacheCoherencyValidator   *)
(*                                                                         *)
(* A dict is a function whose DOMAIN is the set of its keys.               *)

NumCores == 2
MaxData == 1
MaxCalls == 2

Cores == 0..(NumCores - 1)

\* The addresses the model draws from (the test uses 100).
Addrs == {100, 101}

Data == 0..MaxData

MODIFIED == "M"
EXCLUSIVE == "E"
SHARED == "S"
INVALID == "I"

Line(d, s) == [data |-> d, state |-> s]

\* d[key] = value
DictSet(d, key, value) == [x \in DOMAIN d \cup {key} |-> IF x = key THEN value ELSE d[x]]

\* del d[key]
DictDel(d, key) == [x \in DOMAIN d \ {key} |-> d[x]]

\* self.caches[core][address] = line
CacheSet(cs, core, address, line) ==
    [cs EXCEPT ![core] = DictSet(cs[core], address, line)]

\* The state read_request leaves another holder's line in.
SnoopedState(other_state) ==
    IF other_state = MODIFIED THEN SHARED
    ELSE IF other_state = EXCLUSIVE THEN SHARED
    ELSE other_state

\* The body of read_request's loop for one other core that holds the address.
ReadSnoopOne(st, other_core, address) ==
    LET line == st.caches[other_core][address]
    IN  IF line.state = MODIFIED
        THEN [st EXCEPT
                !.memory = DictSet(st.memory, address, line.data),
                !.caches = CacheSet(st.caches, other_core, address,
                                    Line(line.data, SnoopedState(line.state))),
                !.log = Append(st.log, <<other_core, "WRITEBACK", address>>),
                !.other_has_data = TRUE]
        ELSE IF line.state = EXCLUSIVE
        THEN [st EXCEPT
                !.caches = CacheSet(st.caches, other_core, address,
                                    Line(line.data, SnoopedState(line.state))),
                !.other_has_data = TRUE]
        ELSE [st EXCEPT !.other_has_data = TRUE]

\* for other_core in range(self.num_cores), from other_core on.
RECURSIVE ReadSnoop(_, _, _, _)
ReadSnoop(st, core_id, address, other_core) ==
    IF other_core >= NumCores THEN st
    ELSE IF other_core # core_id /\ address \in DOMAIN st.caches[other_core]
    THEN ReadSnoop(ReadSnoopOne(st, other_core, address), core_id, address, other_core + 1)
    ELSE ReadSnoop(st, core_id, address, other_core + 1)

\* The state of the requester's new line.
LoadedState(other_has_data) == IF other_has_data THEN SHARED ELSE EXCLUSIVE

\* read_request on st = [caches, memory, log]; the result adds ret = (data, state).
read_request(st, core_id, address) ==
    IF address \in DOMAIN st.caches[core_id]
    THEN LET line == st.caches[core_id][address]
         IN  [caches |-> st.caches,
              memory |-> st.memory,
              log    |-> Append(st.log, <<core_id, "READ HIT", address, line.state>>),
              ret    |-> <<line.data, line.state>>]
    ELSE LET s0 == [caches |-> st.caches,
                    memory |-> st.memory,
                    log    |-> Append(st.log, <<core_id, "READ MISS", address>>),
                    other_has_data |-> FALSE]
             s1 == ReadSnoop(s0, core_id, address, 0)
             mem == IF address \notin DOMAIN s1.memory
                    THEN DictSet(s1.memory, address, 0)
                    ELSE s1.memory
             data == mem[address]
             new_state == LoadedState(s1.other_has_data)
         IN  [caches |-> CacheSet(s1.caches, core_id, address, Line(data, new_state)),
              memory |-> mem,
              log    |-> Append(s1.log, <<core_id, "LOADED", address, new_state>>),
              ret    |-> <<data, new_state>>]

\* The body of write_request's loop for one other core that holds the address.
WriteInvalidateOne(st, other_core, address) ==
    LET old == st.caches[other_core][address]
        wb == IF old.state = MODIFIED
              THEN [st EXCEPT
                      !.memory = DictSet(st.memory, address, old.data),
                      !.log = Append(st.log, <<other_core, "FORCED_WRITEBACK", address>>)]
              ELSE st
    IN  [wb EXCEPT
           !.caches = [wb.caches EXCEPT ![other_core] = DictDel(wb.caches[other_core], address)],
           !.log = Append(wb.log, <<other_core, "INVALIDATED", address>>)]

RECURSIVE WriteInvalidate(_, _, _, _)
WriteInvalidate(st, core_id, address, other_core) ==
    IF other_core >= NumCores THEN st
    ELSE IF other_core # core_id /\ address \in DOMAIN st.caches[other_core]
    THEN WriteInvalidate(WriteInvalidateOne(st, other_core, address),
                         core_id, address, other_core + 1)
    ELSE WriteInvalidate(st, core_id, address, other_core + 1)

\* write_request on st = [caches, memory, log]; the result adds ret = the state.
write_request(st, core_id, address, data) ==
    LET r  == read_request(st, core_id, address)
        s0 == IF address \notin DOMAIN st.caches[core_id]
              THEN [caches |-> r.caches, memory |-> r.memory, log |-> r.log]
              ELSE st
        s1 == WriteInvalidate(s0, core_id, address, 0)
    IN  [caches |-> CacheSet(s1.caches, core_id, address, Line(data, MODIFIED)),
         memory |-> s1.memory,
         log    |-> Append(s1.log, <<core_id, "WRITE", address, data, MODIFIED>>),
         ret    |-> MODIFIED]

\* The cores whose cache holds the address, and those that hold it in state s.
Holders(cs, address) == {c \in Cores : address \in DOMAIN cs[c]}

HoldersIn(cs, address, s) == {c \in Holders(cs, address) : cs[c][address].state = s}

\* validate_coherency: the violations, each named by its rule and address.
validate_coherency(cs) ==
    LET cached == UNION {DOMAIN cs[c] : c \in Cores}
        modified_count(a) == Cardinality(HoldersIn(cs, a, MODIFIED))
        exclusive_count(a) == Cardinality(HoldersIn(cs, a, EXCLUSIVE))
        shared_count(a) == Cardinality(HoldersIn(cs, a, SHARED))
    IN  {<<"MultipleModified", a>> : a \in {x \in cached : modified_count(x) > 1}}
        \cup {<<"ModifiedNotAlone", a>> :
                a \in {x \in cached : modified_count(x) > 0
                                      /\ (exclusive_count(x) > 0 \/ shared_count(x) > 0)}}
        \cup {<<"ExclusiveNotAlone", a>> :
                a \in {x \in cached : exclusive_count(x) > 0
                                      /\ (modified_count(x) > 0 \/ shared_count(x) > 0)}}
        \cup {<<"MultipleNotAllShared", a>> :
                a \in {x \in cached : Cardinality(Holders(cs, x)) > 1
                                      /\ \E c \in Holders(cs, x) : cs[c][x].state # SHARED}}

EmptyDict == [x \in {} |-> 0]

\* cache_system = CacheCoherencyValidator(num_cores=4, cache_size=16)
CacheSize == 16

\* CacheCoherencyValidator(num_cores, cache_size): what constructing an
\* instance gives.  Line 59 of __init__,
\*     self.caches = [{}] for _ in range(num_cores)
\* is not valid Python, so compiling the class raises SyntaxError: __init__
\* never runs and no instance exists.
CacheCoherencyValidator(num_cores, cache_size) == [raised |-> "SyntaxError"]

\* The calls a client makes once it has an instance, as in
\* test_cache_coherency_validation: read_request by any core on any address,
\* write_request by any core of any data to any address.
MesiCalls ==
    {<<"read", c, a>> : c \in Cores, a \in Addrs}
        \cup {<<"write", c, a, d>> : c \in Cores, a \in Addrs, d \in Data}

\* A client about to construct its instance, with every list of calls of up to
\* MaxCalls calls to make after that.
MesiInit ==
    /\ mesi_prog \in SeqsUpTo(MesiCalls, MaxCalls)
    /\ mesi_pc = "start"
    /\ caches = <<>>
    /\ memory = <<>>
    /\ bus_appended = <<>>
    /\ mesi_call = <<"none">>
    /\ mesi_ret = <<>>

\* cache_system = CacheCoherencyValidator(...): the exception ends the client.
MesiConstruct ==
    LET made == CacheCoherencyValidator(NumCores, CacheSize)
    IN  /\ mesi_pc = "start"
        /\ mesi_call' = <<"__init__", NumCores, CacheSize>>
        /\ mesi_ret' = made.raised
        /\ mesi_pc' = "raised"
        /\ UNCHANGED <<mesi_prog, caches, memory, bus_appended, notMesi>>

\* The methods are called on an instance (mesi_pc = "ready").  No instance
\* exists, so the two calls below are never enabled and MesiNext leaves them
\* out.
MesiState == [caches |-> caches, memory |-> memory, log |-> <<>>]

ReadRequest(core_id, address) ==
    LET r == read_request(MesiState, core_id, address)
    IN  /\ mesi_pc = "ready"
        /\ caches' = r.caches
        /\ memory' = r.memory
        /\ bus_appended' = r.log
        /\ mesi_ret' = r.ret
        /\ mesi_call' = <<"read", core_id, address>>
        /\ UNCHANGED <<mesi_pc, notMesi>>

WriteRequest(core_id, address, data) ==
    LET r == write_request(MesiState, core_id, address, data)
    IN  /\ mesi_pc = "ready"
        /\ caches' = r.caches
        /\ memory' = r.memory
        /\ bus_appended' = r.log
        /\ mesi_ret' = r.ret
        /\ mesi_call' = <<"write", core_id, address, data>>
        /\ UNCHANGED <<mesi_pc, notMesi>>

MesiNext == MesiConstruct

MesiIdle ==
    /\ mesi_prog = <<>>
    /\ mesi_pc = "idle"
    /\ caches = <<>>
    /\ memory = <<>>
    /\ bus_appended = <<>>
    /\ mesi_call = <<"none">>
    /\ mesi_ret = <<>>


-----------------------------------------------------------------------------
(* hardware_validation_deep_concepts.py, part 2: TLBValidator              *)

MaxTlbSize == 2
MaxPage == 2
MaxAccesses == 4

\* translate_address's default page_size.
PageSize == 4096

\* The first physical page _allocate_physical_page hands out is one above this.
PhysicalBase == 1000

\* The virtual addresses the model draws from: two offsets in every page.
TlbOffsets == {0, 1280}

VirtualAddresses == {p * PageSize + o : p \in 0..MaxPage, o \in TlbOffsets}

\* TLBEntry(virtual_page, physical_page) with its access_time set.
TLBEntry(virtual_page, physical_page, access_time) ==
    [virtual_page  |-> virtual_page,
     physical_page |-> physical_page,
     valid         |-> TRUE,
     dirty         |-> FALSE,
     access_time   |-> access_time]

\* min(self.tlb.keys(), key=lambda vp: self.tlb[vp].access_time)
LruPage(t) == CHOOSE vp \in DOMAIN t :
                  \A other \in DOMAIN t : t[vp].access_time <= t[other].access_time

\* len(self.tlb) >= self.tlb_size and virtual_page not in self.tlb
MustEvict(t, size, virtual_page) ==
    Cardinality(DOMAIN t) >= size /\ virtual_page \notin DOMAIN t

\* _update_tlb on the dict t; now is self.access_counter.
update_tlb(t, size, virtual_page, physical_page, now) ==
    LET kept == IF MustEvict(t, size, virtual_page) THEN DictDel(t, LruPage(t)) ELSE t
    IN  DictSet(kept, virtual_page, TLBEntry(virtual_page, physical_page, now))

\* _allocate_physical_page
allocate_physical_page(pt) == Cardinality(DOMAIN pt) + PhysicalBase

\* Mutation: a hit does not refresh the entry's access_time (FIFO, not LRU).
TouchEntryNoRefresh(t, virtual_page, now) == t

\* The TLB after a hit on virtual_page: tlb_entry.access_time = self.access_counter
TouchEntry(t, virtual_page, now) == [t EXCEPT ![virtual_page].access_time = now]

\* Mutation: the page-fault path reports an ordinary miss.
MissStatusAlwaysMiss(fault) == "TLB_MISS"

\* The status of a translation that missed the TLB.
MissStatus(fault) == IF fault THEN "PAGE_FAULT" ELSE "TLB_MISS"

TlbInit(size) ==
    /\ tlb = EmptyDict
    /\ tlb_size = size
    /\ access_counter = 0
    /\ hits = 0
    /\ misses = 0
    /\ page_faults = 0
    /\ page_table = EmptyDict
    /\ tlb_call = -1
    /\ tlb_ret = <<>>
    /\ access_log = <<>>
    /\ tlb_stats = <<>>

\* translate_address(virtual_address) with the default page_size.
TranslateAddress(virtual_address) ==
    LET now == access_counter + 1
        virtual_page == virtual_address \div PageSize
        offset == virtual_address % PageSize
    IN  /\ access_counter < MaxAccesses
        /\ access_counter' = now
        /\ tlb_call' = virtual_address
        /\ access_log' = Append(access_log, virtual_page)
        /\ tlb_stats' = <<>>
        /\ UNCHANGED <<tlb_size, notTlb>>
        /\ IF virtual_page \in DOMAIN tlb /\ tlb[virtual_page].valid
           THEN /\ hits' = hits + 1
                /\ tlb' = TouchEntry(tlb, virtual_page, now)
                /\ tlb_ret' = <<tlb[virtual_page].physical_page * PageSize + offset, "TLB_HIT">>
                /\ UNCHANGED <<misses, page_faults, page_table>>
           ELSE LET fault == virtual_page \notin DOMAIN page_table
                    pt == IF fault
                          THEN DictSet(page_table, virtual_page,
                                       allocate_physical_page(page_table))
                          ELSE page_table
                    physical_page == pt[virtual_page]
                IN  /\ misses' = misses + 1
                    /\ page_faults' = IF fault THEN page_faults + 1 ELSE page_faults
                    /\ page_table' = pt
                    /\ tlb' = update_tlb(tlb, tlb_size, virtual_page, physical_page, now)
                    /\ tlb_ret' = <<physical_page * PageSize + offset, MissStatus(fault)>>
                    /\ UNCHANGED hits

\* (count / total_accesses) * 100
Rate(count, total_accesses) == DoubleTimesInt(IntTrueDiv(count, total_accesses), 100)

\* get_statistics(); the rates are doubles
get_statistics ==
    LET total_accesses == hits + misses
    IN  IF total_accesses = 0
        THEN [hit_rate |-> Zero, miss_rate |-> Zero, page_fault_rate |-> Zero]
        ELSE [hit_rate        |-> Rate(hits, total_accesses),
              miss_rate       |-> Rate(misses, total_accesses),
              page_fault_rate |-> Rate(page_faults, total_accesses),
              total_accesses  |-> total_accesses]

\* Any caller: translate_address of any virtual address.
TlbTranslate == \E va \in VirtualAddresses : TranslateAddress(va)

\* stats = tlb_validator.get_statistics()
TlbStatistics ==
    /\ tlb_stats' = get_statistics
    /\ UNCHANGED <<tlb, tlb_size, access_counter, hits, misses, page_faults, page_table,
                   tlb_call, tlb_ret, access_log, notTlb>>

TlbNext == TlbTranslate \/ TlbStatistics

-----------------------------------------------------------------------------
(* hardware_validation_deep_concepts.py, part 3: OutOfOrderProcessor       *)

MaxIssue == 3
MaxCycle == 5
MaxProg == 4

\* self.register_file = [0] * 32
NumRegisters == 32

LOAD == "LOAD"
STORE == "STORE"
ALU == "ALU"
BRANCH == "BRANCH"
NOP == "NOP"

\* Instruction.__init__
Instruction(inst_type, src_regs, dest_reg, immediate) ==
    [type            |-> inst_type,
     src_regs        |-> src_regs,
     dest_reg        |-> dest_reg,
     immediate       |-> immediate,
     issued          |-> FALSE,
     completed       |-> FALSE,
     cycle_issued    |-> -1,
     cycle_completed |-> -1]

\* The instruction list of test_out_of_order_validation.
TestProgram ==
    <<Instruction(LOAD, <<0>>, 1, 10),
      Instruction(ALU, <<1>>, 2, 5),
      Instruction(ALU, <<0>>, 3, 20),
      Instruction(ALU, <<2, 3>>, 4, 0)>>

\* expected_results of test_out_of_order_validation.
TestExpected == (1 :> 10) @@ (2 :> 15) @@ (3 :> 20) @@ (4 :> 35)

\* OutOfOrderProcessor(num_execution_units=2, reorder_buffer_size=8)
TestUnits == 2
TestRobSize == 8

\* max_cycles of the test's loop.
max_cycles == 20

\* The instructions the model issues: the test's four and a STORE whose
\* destination is R0, the source register of two of them.
InstructionPool ==
    {TestProgram[j] : j \in 1..4} \cup {Instruction(STORE, <<3>>, 0, 7)}

\* The (num_execution_units, reorder_buffer_size) the model constructs.
ProcessorSizes == {<<1, 2>>, <<TestUnits, TestRobSize>>}

\* _get_latency
get_latency(inst_type) ==
    IF inst_type = LOAD THEN 3 ELSE 1

\* Mutation: the new entry goes to the head of the deque (appendleft).
RobAppendLeft(rob, id) == <<id>> \o rob

\* self.reorder_buffer.append(instruction)
RobAppend(rob, id) == Append(rob, id)

\* OutOfOrderProcessor.__init__
OooInit(units, rob_size) ==
    /\ num_execution_units = units
    /\ reorder_buffer_size = rob_size
    /\ instrs = <<>>
    /\ reorder_buffer = <<>>
    /\ reservation_stations = <<>>
    /\ execution_units = [u \in 1..units |-> 0]
    /\ register_file = [r \in 0..(NumRegisters - 1) |-> 0]
    /\ register_busy = [r \in 0..(NumRegisters - 1) |-> FALSE]
    /\ cycle = 0
    /\ instructions_issued = 0
    /\ instructions_completed = 0
    /\ hazard_stalls = 0
    /\ ooo_ret = "none"
    /\ committed = <<>>

\* Mutation: the scoreboard is not consulted.
OperandsReadyAlways(ins, busy) == TRUE

\* Every source register of ins is free on the scoreboard busy.
OperandsReady(ins, busy) == \A j \in DOMAIN ins.src_regs : ~busy[ins.src_regs[j]]

\* issue_instruction(instruction)
IssueInstruction(ins) ==
    IF Len(reorder_buffer) >= reorder_buffer_size \/ register_busy[ins.dest_reg]
    THEN /\ hazard_stalls' = hazard_stalls + 1
         /\ ooo_ret' = FALSE
         /\ UNCHANGED <<num_execution_units, reorder_buffer_size, instrs, reorder_buffer,
                        reservation_stations, execution_units, register_file,
                        register_busy, cycle, instructions_issued,
                        instructions_completed, committed>>
    ELSE LET id == Len(instrs) + 1
             busy == [register_busy EXCEPT ![ins.dest_reg] = TRUE]
         IN  /\ reorder_buffer' = RobAppend(reorder_buffer, id)
             /\ register_busy' = busy
             /\ instrs' = Append(instrs, [ins EXCEPT !.issued = TRUE,
                                                     !.cycle_issued = cycle])
             /\ instructions_issued' = instructions_issued + 1
             /\ reservation_stations' = IF OperandsReady(ins, busy)
                                        THEN Append(reservation_stations, id)
                                        ELSE reservation_stations
             /\ ooo_ret' = TRUE
             /\ UNCHANGED <<num_execution_units, reorder_buffer_size, execution_units,
                            register_file, cycle, instructions_completed, hazard_stalls,
                            committed>>

\* PHASE 1 of execute_cycle on st = [rob, busy, regs, committed]: the while loop.
RECURSIVE CommitCompleted(_, _)
CommitCompleted(st, ins) ==
    IF st.rob # <<>> /\ ins[Head(st.rob)].completed
    THEN LET instruction == ins[Head(st.rob)]
         IN  CommitCompleted(
                 [rob  |-> Tail(st.rob),
                  busy |-> [st.busy EXCEPT ![instruction.dest_reg] = FALSE],
                  regs |-> IF instruction.type # STORE
                           THEN [st.regs EXCEPT ![instruction.dest_reg] = instruction.immediate]
                           ELSE st.regs,
                  committed |-> Append(st.committed, Head(st.rob))],
                 ins)
    ELSE st

\* PHASE 2: the execution units whose instruction completes in cycle now.
Completing(units, ins, now) ==
    {u \in DOMAIN units :
        units[u] # 0 /\ now - ins[units[u]].cycle_issued >= get_latency(ins[units[u]].type)}

\* The position of the first free execution unit, 0 when none is free.
FirstFree(units) ==
    IF \E u \in DOMAIN units : units[u] = 0
    THEN CHOOSE u \in DOMAIN units : units[u] = 0 /\ \A v \in 1..(u - 1) : units[v] # 0
    ELSE 0

\* self.reservation_stations.remove(instruction)
RECURSIVE ListRemove(_, _)
ListRemove(list, x) ==
    IF list = <<>> THEN <<>>
    ELSE IF Head(list) = x THEN Tail(list)
    ELSE <<Head(list)>> \o ListRemove(Tail(list), x)

\* PHASE 3, the scheduling loop over ready_instructions, on st = [units, rs].
RECURSIVE Schedule(_, _)
Schedule(st, ready) ==
    IF ready = <<>> THEN st
    ELSE LET u == FirstFree(st.units)
         IN  IF u = 0
             THEN Schedule(st, Tail(ready))
             ELSE Schedule([units |-> [st.units EXCEPT ![u] = Head(ready)],
                            rs    |-> ListRemove(st.rs, Head(ready))],
                           Tail(ready))

\* execute_cycle()
ExecuteCycle ==
    LET now == cycle + 1
        p1 == CommitCompleted([rob |-> reorder_buffer, busy |-> register_busy,
                               regs |-> register_file, committed |-> committed], instrs)
        done == Completing(execution_units, instrs, now)
        done_ids == {execution_units[u] : u \in done}
        ins2 == [id \in DOMAIN instrs |->
                    IF id \in done_ids
                    THEN [instrs[id] EXCEPT !.completed = TRUE, !.cycle_completed = now]
                    ELSE instrs[id]]
        units2 == [u \in DOMAIN execution_units |->
                      IF u \in done THEN 0 ELSE execution_units[u]]
        ready == SelectSeq(reservation_stations,
                           LAMBDA id : OperandsReady(ins2[id], p1.busy))
        p3 == Schedule([units |-> units2, rs |-> reservation_stations], ready)
    IN  /\ cycle' = now
        /\ reorder_buffer' = p1.rob
        /\ register_busy' = p1.busy
        /\ register_file' = p1.regs
        /\ committed' = p1.committed
        /\ instrs' = ins2
        /\ instructions_completed' = instructions_completed + Cardinality(done)
        /\ execution_units' = p3.units
        /\ reservation_stations' = p3.rs
        /\ UNCHANGED <<num_execution_units, reorder_buffer_size, instructions_issued,
                       hazard_stalls, ooo_ret>>

\* validate_correctness(expected_results): the violations, each named by its check.
validate_correctness(expected_results) ==
    {<<"Register", reg, expected_results[reg], register_file[reg]>> :
        reg \in {r \in DOMAIN expected_results : register_file[r] # expected_results[r]}}
    \cup (IF reservation_stations # <<>>
          THEN {<<"Deadlock", Len(reservation_stations)>>}
          ELSE {})
    \cup (LET incomplete == SelectSeq(reorder_buffer, LAMBDA id : ~instrs[id].completed)
          IN  IF incomplete # <<>> THEN {<<"Incomplete execution", Len(incomplete)>>} ELSE {})

\* The test's loop condition: something is still in flight.
InFlight ==
    \/ reorder_buffer # <<>>
    \/ reservation_stations # <<>>
    \/ \E u \in DOMAIN execution_units : execution_units[u] # 0

TestIdle ==
    /\ t_pc = "free"
    /\ t_program = <<>>
    /\ t_i = 0
    /\ t_cycle = 0
    /\ t_expected = EmptyDict
    /\ t_violations = {}

OooIdle == OooInit(TestUnits, TestRobSize) /\ TestIdle

\* Any caller: issue_instruction with an instruction of the pool.
OooIssue ==
    /\ instructions_issued + hazard_stalls < MaxIssue
    /\ \E ins \in InstructionPool : IssueInstruction(ins)
    /\ UNCHANGED <<testVars, notOoo>>

\* Any caller: execute_cycle.
OooCycle ==
    /\ cycle < MaxCycle
    /\ ExecuteCycle
    /\ UNCHANGED <<testVars, notOoo>>

OooNext == OooIssue \/ OooCycle

\* test_out_of_order_validation with the instruction list and expected_results
\* as inputs.
TestInit ==
    /\ OooInit(TestUnits, TestRobSize)
    /\ t_pc = "issue"
    /\ t_program \in SeqsUpTo(InstructionPool, MaxProg)
    /\ t_i = 0
    /\ t_cycle = 0
    /\ t_expected \in {EmptyDict, TestExpected}
    /\ t_violations = {}

\* for i, inst in enumerate(instructions): processor.issue_instruction(inst)
TestIssue ==
    /\ t_pc = "issue"
    /\ t_i < Len(t_program)
    /\ IssueInstruction(t_program[t_i + 1])
    /\ t_i' = t_i + 1
    /\ UNCHANGED <<t_pc, t_program, t_cycle, t_expected, t_violations, notOoo>>

TestIssued ==
    /\ t_pc = "issue"
    /\ t_i = Len(t_program)
    /\ t_pc' = "run"
    /\ UNCHANGED <<oooVars, t_program, t_i, t_cycle, t_expected, t_violations, notOoo>>

\* while (in flight) and cycle < max_cycles: processor.execute_cycle(); cycle += 1
TestCycle ==
    /\ t_pc = "run"
    /\ InFlight /\ t_cycle < max_cycles
    /\ ExecuteCycle
    /\ t_cycle' = t_cycle + 1
    /\ UNCHANGED <<t_pc, t_program, t_i, t_expected, t_violations, notOoo>>

\* violations = processor.validate_correctness(expected_results)
TestValidate ==
    /\ t_pc = "run"
    /\ ~(InFlight /\ t_cycle < max_cycles)
    /\ t_violations' = validate_correctness(t_expected)
    /\ t_pc' = "done"
    /\ UNCHANGED <<oooVars, t_program, t_i, t_cycle, t_expected, notOoo>>

TestNext == TestIssue \/ TestIssued \/ TestCycle \/ TestValidate

-----------------------------------------------------------------------------
(* nvda-parse-log-print-line-before-after-target.py                        *)
(*                                                                         *)
(* A str is a sequence of one-character strings.  An Optional[str] is <<>> *)
(* for None and <<line>> for a line.                                       *)

MaxFileLen == 5
MaxPatLen == 2

LF == "\n"
CR == "\r"

\* The characters of the files and of the patterns the model draws from.
FileChars == {"a", "b", LF, CR}

PatternChars == {"a", LF}

None == <<>>

Some(x) == <<x>>

\* open(..., 'r') with the default newline=None: '\r\n' and '\r' are read as '\n'.
RECURSIVE UniversalNewlines(_)
UniversalNewlines(text) ==
    IF text = <<>> THEN <<>>
    ELSE IF Head(text) = CR
    THEN IF Len(text) >= 2 /\ text[2] = LF
         THEN <<LF>> \o UniversalNewlines(SubSeq(text, 3, Len(text)))
         ELSE <<LF>> \o UniversalNewlines(Tail(text))
    ELSE <<Head(text)>> \o UniversalNewlines(Tail(text))

\* f.readlines() on translated text: the lines, each with its '\n'; cur is
\* the line being collected.
RECURSIVE SplitKeepEnds(_, _)
SplitKeepEnds(text, cur) ==
    IF text = <<>> THEN (IF cur = <<>> THEN <<>> ELSE <<cur>>)
    ELSE IF Head(text) = LF
    THEN <<Append(cur, LF)>> \o SplitKeepEnds(Tail(text), <<>>)
    ELSE SplitKeepEnds(Tail(text), Append(cur, Head(text)))

readlines(text) == SplitKeepEnds(UniversalNewlines(text), <<>>)

\* line.rstrip('\n\r')
RECURSIVE rstrip(_)
rstrip(line) ==
    IF line # <<>> /\ Last(line) \in {LF, CR} THEN rstrip(Front(line)) ELSE line

\* pattern in line
Contains(line, pattern) ==
    \E i \in 0..(Len(line) - Len(pattern)) :
        SubSeq(line, i + 1, i + Len(pattern)) = pattern

\* Mutation: the guard i > 0 is missing, so lines[-1] is the last line.
PrevLineWraps(lines, i) == IF i > 0 THEN Some(lines[i]) ELSE Some(lines[Len(lines)])

\* lines[i-1] if i > 0 else None, i the 0-based index
PrevLine(lines, i) == IF i > 0 THEN Some(lines[i]) ELSE None

\* lines[i+1] if i < len(lines)-1 else None
NextLine(lines, i) == IF i < Len(lines) - 1 THEN Some(lines[i + 2]) ELSE None

\* The for loop from 0-based index i on.
RECURSIVE GrepLoop(_, _, _)
GrepLoop(lines, pattern, i) ==
    IF i >= Len(lines) THEN <<>>
    ELSE IF Contains(lines[i + 1], pattern)
    THEN <<<<PrevLine(lines, i), lines[i + 1], NextLine(lines, i)>>>>
         \o GrepLoop(lines, pattern, i + 1)
    ELSE GrepLoop(lines, pattern, i + 1)

\* grep_with_context(file_path, pattern)
grep_with_context(exists, text, pattern) ==
    IF ~exists
    THEN <<>>
    ELSE LET raw == readlines(text)
             lines == [j \in 1..Len(raw) |-> rstrip(raw[j])]
         IN  GrepLoop(lines, pattern, 0)

GrepInit ==
    /\ g_exists \in BOOLEAN
    /\ g_text \in SeqsUpTo(FileChars, MaxFileLen)
    /\ g_exists = FALSE => g_text = <<>>
    /\ g_pattern \in SeqsUpTo(PatternChars, MaxPatLen)
    /\ g_pc = "start"
    /\ g_result = <<>>

GrepIdle ==
    /\ g_exists = FALSE
    /\ g_text = <<>>
    /\ g_pattern = <<>>
    /\ g_pc = "idle"
    /\ g_result = <<>>

\* results = grep_with_context(file_path, pattern)
GrepCall ==
    /\ g_pc = "start"
    /\ g_result' = grep_with_context(g_exists, g_text, g_pattern)
    /\ g_pc' = "done"
    /\ UNCHANGED <<g_exists, g_text, g_pattern, notGrep>>

GrepNext == GrepCall

-----------------------------------------------------------------------------
(* parse-ltssm-logfile.py                                                  *)
(*                                                                         *)
(* A trace is the list of the rows of the CSV file after the conversions   *)
(* of lines 54-56: a timestamp is a double, a state and additional_data    *)
(* are strings.  The timestamps of a trace do not decrease.                *)

MaxTrace == 6
MaxTime == 4
MaxSpeedTrace == 3

\* The ltssm_state and additional_data values the model draws from.
LtssmStates == {"L0", "Recovery", "Config"}

\* additional_data and the speeds are strings, modelled as sequences of
\* characters.
GenText == <<"G", "e", "n">>

\* current_speed = "Gen1"
DefaultSpeed == GenText \o <<"1">>

\* The additional_data values: "", "Gen1", "Ge" and "xGen"
LtssmData == {<<>>, GenText \o <<"1">>, <<"G", "e">>, <<"x">> \o GenText}

\* "Gen" in data
HasGen(data) ==
    \E i \in 0..(Len(data) - Len(GenText)) : SubSeq(data, i + 1, i + Len(GenText)) = GenText

LTSSMEvent(timestamp, state, data) ==
    [timestamp |-> timestamp, state |-> state, data |-> data]

LTSSMAnalysis(first_l0_time, retrain_count, longest_recovery_dwell, total_time, state_dwells, speed_changes) ==
    [first_l0_time          |-> first_l0_time,
     retrain_count          |-> retrain_count,
     longest_recovery_dwell |-> longest_recovery_dwell,
     total_time             |-> total_time,
     state_dwells           |-> state_dwells,
     speed_changes          |-> speed_changes]

\* LTSSMAnalysis(None, 0, 0.0, 0.0, {}, [])
EmptyAnalysis == LTSSMAnalysis(None, 0, Zero, Zero, EmptyDict, <<>>)

\* Mutation: the dwell of the run just closed replaces the longest so far.
LongestDwellOverwritten(longest, dwell) == dwell

\* max(longest_recovery_dwell, recovery_dwell)
LongestDwell(longest, dwell) == IF DoubleLE(dwell, longest) THEN longest ELSE dwell

\* The body of the for loop for events[i] (0-based i >= 1) on the locals st.
LtssmStep(events, i, st) ==
    LET event == events[i + 1]
        prev_event == st.prev_event
        dwell_time == DoubleSub(event.timestamp, prev_event.timestamp)
        dwells0 == IF prev_event.state \notin DOMAIN st.state_dwells
                   THEN DictSet(st.state_dwells, prev_event.state, Zero)
                   ELSE st.state_dwells
        dwells == DictSet(dwells0, prev_event.state,
                          DoubleAdd(dwells0[prev_event.state], dwell_time))
        first == IF event.state = "L0" /\ st.first_l0_time = None
                 THEN Some(event.timestamp)
                 ELSE st.first_l0_time
        retrains == IF prev_event.state = "Recovery" /\ event.state \in {"Config", "Polling"}
                    THEN st.retrain_count + 1
                    ELSE st.retrain_count
        closing == prev_event.state # "Recovery" /\ st.current_recovery_start # None
        start == IF prev_event.state = "Recovery"
                 THEN (IF st.current_recovery_start = None
                       THEN Some(prev_event.timestamp)
                       ELSE st.current_recovery_start)
                 ELSE None
        longest == IF closing
                   THEN LongestDwell(st.longest_recovery_dwell,
                                     DoubleSub(prev_event.timestamp,
                                               st.current_recovery_start[1]))
                   ELSE st.longest_recovery_dwell
        changed == event.data # <<>> /\ HasGen(event.data) /\ event.data # st.current_speed
    IN  [prev_event             |-> event,
         first_l0_time          |-> first,
         retrain_count          |-> retrains,
         longest_recovery_dwell |-> longest,
         current_recovery_start |-> start,
         state_dwells           |-> dwells,
         speed_changes          |-> IF changed
                                    THEN Append(st.speed_changes,
                                                <<event.timestamp, st.current_speed, event.data>>)
                                    ELSE st.speed_changes,
         current_speed          |-> IF changed THEN event.data ELSE st.current_speed]

\* for i, event in enumerate(events[1:], 1), from i on
RECURSIVE LtssmLoop(_, _, _)
LtssmLoop(events, i, st) ==
    IF i >= Len(events) THEN st ELSE LtssmLoop(events, i + 1, LtssmStep(events, i, st))

\* Handle case where trace ends in Recovery (lines 116-118)
TraceEnd(events, st) ==
    IF st.current_recovery_start # None
    THEN LongestDwell(st.longest_recovery_dwell,
                      DoubleSub(Last(events).timestamp, st.current_recovery_start[1]))
    ELSE st.longest_recovery_dwell

\* parse_ltssm_trace(csv_file); ok is FALSE when reading or converting the file
\* raised an exception.
parse_ltssm_trace(ok, events) ==
    IF ~ok \/ events = <<>>
    THEN EmptyAnalysis
    ELSE LET st == LtssmLoop(events, 1,
                             [prev_event             |-> events[1],
                              first_l0_time          |-> None,
                              retrain_count          |-> 0,
                              longest_recovery_dwell |-> Zero,
                              current_recovery_start |-> None,
                              state_dwells           |-> EmptyDict,
                              speed_changes          |-> <<>>,
                              current_speed          |-> DefaultSpeed])
         IN  LTSSMAnalysis(st.first_l0_time, st.retrain_count, TraceEnd(events, st),
                           DoubleSub(Last(events).timestamp, events[1].timestamp),
                           st.state_dwells, st.speed_changes)

\* trace_data of create_sample_ltssm_trace, as parse_ltssm_trace reads it back
\* from sample_ltssm.csv: three Recovery runs, the last one closed by the
\* last row.
SampleTrace ==
    <<LTSSMEvent(FromDecimal(0, 1000), "Detect", <<>>),
      LTSSMEvent(FromDecimal(100, 1000), "Polling", <<>>),
      LTSSMEvent(FromDecimal(500, 1000), "Config", GenText \o <<"1">>),
      LTSSMEvent(FromDecimal(2000, 1000), "L0", GenText \o <<"1">>),
      LTSSMEvent(FromDecimal(5000, 1000), "Recovery", <<>>),
      LTSSMEvent(FromDecimal(5200, 1000), "Config", GenText \o <<"2">>),
      LTSSMEvent(FromDecimal(6000, 1000), "L0", GenText \o <<"2">>),
      LTSSMEvent(FromDecimal(10000, 1000), "L0s", <<>>),
      LTSSMEvent(FromDecimal(10050, 1000), "L0", GenText \o <<"2">>),
      LTSSMEvent(FromDecimal(15000, 1000), "Recovery", <<>>),
      LTSSMEvent(FromDecimal(15800, 1000), "Config", GenText \o <<"3">>),
      LTSSMEvent(FromDecimal(16500, 1000), "L0", GenText \o <<"3">>),
      LTSSMEvent(FromDecimal(20000, 1000), "Recovery", <<>>),
      LTSSMEvent(FromDecimal(23000, 1000), "L0", GenText \o <<"3">>)>>

\* The timestamp columns of the long traces: non-decreasing sequences.
TimeColumns ==
    {ts \in SeqsUpTo(0..MaxTime, MaxTrace) : \A j \in 1..(Len(ts) - 1) : ts[j] <= ts[j + 1]}

\* The timestamps of the generated traces: float(n) for the whole numbers
\* 0 .. MaxTime + MaxSpeedTrace
TimeOf == [n \in 0..(MaxTime + MaxSpeedTrace) |-> FromInt(n)]

\* The states of the long traces
RunStates == {"Recovery", "L0"}

\* A long trace: rows that enter and leave Recovery at the times ts, with no
\* additional_data.
RunTrace(ts, sts) == [j \in 1..Len(ts) |-> LTSSMEvent(TimeOf[ts[j]], sts[j], <<>>)]

\* A short trace: n rows of any state and any additional_data, row j at time
\* j - 1.
SpeedTrace(n, sts, ds) == [j \in 1..n |-> LTSSMEvent(TimeOf[j - 1], sts[j], ds[j])]

\* The CSV file holds a long trace of up to MaxTrace rows, a short trace of up
\* to MaxSpeedTrace rows or the sample trace, or cannot be read.
LtssmInit ==
    /\ l_ok \in BOOLEAN
    /\ \/ \E ts \in TimeColumns : \E sts \in [1..Len(ts) -> RunStates] :
             l_events = RunTrace(ts, sts)
       \/ \E n \in 0..MaxSpeedTrace :
             \E sts \in [1..n -> LtssmStates], ds \in [1..n -> LtssmData] :
                 l_events = SpeedTrace(n, sts, ds)
       \/ l_events = SampleTrace
    /\ l_ok = FALSE => l_events = <<>>
    /\ l_pc = "start"
    /\ l_analysis = <<>>

\* analysis = parse_ltssm_trace('sample_ltssm.csv')
LtssmCall ==
    /\ l_pc = "start"
    /\ l_analysis' = parse_ltssm_trace(l_ok, l_events)
    /\ l_pc' = "done"
    /\ UNCHANGED <<l_ok, l_events, notLtssm>>

LtssmNext == LtssmCall

LtssmIdle ==
    /\ l_ok = FALSE
    /\ l_events = <<>>
    /\ l_pc = "idle"
    /\ l_analysis = <<>>

-----------------------------------------------------------------------------
(* appl-reverse-bits.py                                                    *)
(*                                                                         *)
(* A non-negative Python integer is the set of the positions of its 1      *)
(* bits (bit 0 the least significant): & is intersection, | is union,      *)
(* ^ is symmetric difference, x & ~m is set difference, and the shifts     *)
(* move the positions.  A 32-bit value is a subset of 0..31.               *)

MaxOnes == 2

\* 0xFFFFFFFF
Mask32 == 0..31

\* 0xAAAAAAAA, 0xCCCCCCCC, 0xF0F0F0F0, 0xFF00FF00: the upper half of every
\* group of 2 * k bits; the lower halves are 0x55555555, 0x33333333, ...
UpperHalves(k) == {i \in Mask32 : i % (2 * k) >= k}

LowerHalves(k) == {i \in Mask32 : i % (2 * k) < k}

\* reverse_bits(n), from iteration i of the loop on
RECURSIVE ReverseLoop(_, _, _)
ReverseLoop(n, result, i) ==
    IF i >= 32 THEN result
    ELSE LET bit == BitAnd(n, {0})
         IN  ReverseLoop(Shr(n, 1), BitOr(Shl(result, 1), bit), i + 1)

reverse_bits(n) == ReverseLoop(n, {}, 0)

\* n = ((n & upper) >> k) | ((n & lower) << k)
SwapGroups(n, k) ==
    BitOr(Shr(BitAnd(n, UpperHalves(k)), k), Shl(BitAnd(n, LowerHalves(k)), k))

\* Mutation: the result is not cut to 32 bits.
reverse_bits_optimizedUnmasked(n) ==
    LET n4 == SwapGroups(SwapGroups(SwapGroups(SwapGroups(n, 1), 2), 4), 8)
    IN  BitOr(Shr(n4, 16), Shl(n4, 16))

reverse_bits_optimized(n) ==
    LET n4 == SwapGroups(SwapGroups(SwapGroups(SwapGroups(n, 1), 2), 4), 8)
    IN  BitAnd(BitOr(Shr(n4, 16), Shl(n4, 16)), Mask32)

\* format(n, '0<width>b'): the binary digits, most significant first, padded
\* with zeros to width characters
FormatBinary(n, width) ==
    LET top == IF n = {} THEN 0 ELSE CHOOSE i \in n : \A j \in n : j <= i
        len == IF top + 1 > width THEN top + 1 ELSE width
    IN  [j \in 1..len |-> IF (len - j) \in n THEN "1" ELSE "0"]

\* format(n, '032b')
Format032b(n) == FormatBinary(n, 32)

\* s[::-1]
Reversed(s) == [j \in 1..Len(s) |-> s[Len(s) + 1 - j]]

\* int(s, 2)
IntBase2(s) == {Len(s) - j : j \in {k \in 1..Len(s) : s[k] = "1"}}

reverse_bits_builtin(n) == IntBase2(Reversed(Format032b(n)))

\* The 32-bit inputs: at most MaxOnes bits set, at most one bit clear, and 13
\* (a test case).
RECURSIVE FewBits(_)
FewBits(k) ==
    IF k = 0 THEN {{}}
    ELSE FewBits(k - 1) \cup {x \cup {i} : x \in FewBits(k - 1), i \in Mask32}

RbInputs ==
    FewBits(MaxOnes) \cup {Mask32 \ x : x \in FewBits(1)} \cup {BitsOf(13)}

RbInit ==
    /\ rb_n \in RbInputs
    /\ rb_pc = "run"
    /\ rb_out = EmptyDict

RbDone(out) == IF {"basic", "optimized", "builtin", "twice"} \subseteq DOMAIN out
               THEN "done" ELSE "run"

\* result = reverse_bits(input_val)
RbBasic ==
    /\ rb_pc = "run"
    /\ "basic" \notin DOMAIN rb_out
    /\ rb_out' = DictSet(rb_out, "basic", reverse_bits(rb_n))
    /\ rb_pc' = RbDone(rb_out')
    /\ UNCHANGED <<rb_n, notRb>>

RbOptimized ==
    /\ rb_pc = "run"
    /\ "optimized" \notin DOMAIN rb_out
    /\ rb_out' = DictSet(rb_out, "optimized", reverse_bits_optimized(rb_n))
    /\ rb_pc' = RbDone(rb_out')
    /\ UNCHANGED <<rb_n, notRb>>

RbBuiltin ==
    /\ rb_pc = "run"
    /\ "builtin" \notin DOMAIN rb_out
    /\ rb_out' = DictSet(rb_out, "builtin", reverse_bits_builtin(rb_n))
    /\ rb_pc' = RbDone(rb_out')
    /\ UNCHANGED <<rb_n, notRb>>

\* reverse_bits applied to the result of reverse_bits
RbTwice ==
    /\ rb_pc = "run"
    /\ "basic" \in DOMAIN rb_out
    /\ "twice" \notin DOMAIN rb_out
    /\ rb_out' = DictSet(rb_out, "twice", reverse_bits(rb_out["basic"]))
    /\ rb_pc' = RbDone(rb_out')
    /\ UNCHANGED <<rb_n, notRb>>

RbNext == RbBasic \/ RbOptimized \/ RbBuiltin \/ RbTwice

RbIdle ==
    /\ rb_n = {}
    /\ rb_pc = "idle"
    /\ rb_out = <<>>

-----------------------------------------------------------------------------
(* 1-power_of_2.py                                                         *)

MaxN == 64

\* Mutation: zero and the negative numbers are not excluded.
is_power_of_two_bit_manipulationUnguarded(n) ==
    BitAnd(BitsOf(n), BitsOf(n - 1)) = {}

\* return n > 0 and (n & (n - 1)) == 0
is_power_of_two_bit_manipulation(n) ==
    n > 0 /\ BitAnd(BitsOf(n), BitsOf(n - 1)) = {}

P2Init ==
    /\ p2_n \in (0 - MaxN)..MaxN
    /\ p2_cur = p2_n
    /\ p2_pc = "start"
    /\ p2_basic = FALSE
    /\ p2_bit = FALSE

\* is_power_of_two_basic(num): if n <= 0: return False
P2Enter ==
    /\ p2_pc = "start"
    /\ IF p2_cur <= 0
       THEN p2_basic' = FALSE /\ p2_pc' = "returned"
       ELSE p2_basic' = p2_basic /\ p2_pc' = "loop"
    /\ UNCHANGED <<p2_n, p2_cur, p2_bit, notP2>>

\* while n % 2 == 0: n //= 2
P2Halve ==
    /\ p2_pc = "loop"
    /\ p2_cur % 2 = 0
    /\ p2_cur' = p2_cur \div 2
    /\ UNCHANGED <<p2_n, p2_pc, p2_basic, p2_bit, notP2>>

\* return n == 1
P2Return ==
    /\ p2_pc = "loop"
    /\ p2_cur % 2 # 0
    /\ p2_basic' = (p2_cur = 1)
    /\ p2_pc' = "returned"
    /\ UNCHANGED <<p2_n, p2_cur, p2_bit, notP2>>

\* bit_result = is_power_of_two_bit_manipulation(num)
P2Bit ==
    /\ p2_pc = "returned"
    /\ p2_bit' = is_power_of_two_bit_manipulation(p2_n)
    /\ p2_pc' = "done"
    /\ UNCHANGED <<p2_n, p2_cur, p2_basic, notP2>>

P2Next == P2Enter \/ P2Halve \/ P2Return \/ P2Bit

P2Idle ==
    /\ p2_n = 0
    /\ p2_cur = 0
    /\ p2_pc = "idle"
    /\ p2_basic = FALSE
    /\ p2_bit = FALSE

-----------------------------------------------------------------------------
(* apple_silicon_validation_practice.py: count_ones                        *)
(* hamming_weight_deep_dive.py: algorithm_comparison                       *)

\* bin(n) for n >= 0
Bin(n) == <<"0", "b">> \o FormatBinary(BitsOf(n), 1)

\* s.count(c)
CountChar(s, c) == Cardinality({j \in DOMAIN s : s[j] = c})

\* count_ones_basic(n), naive_approach(n): bin(n).count('1')
count_ones_basic(n) == CountChar(Bin(n), "1")

\* bit_shift_approach(n): while n: count += n & 1; n >>= 1
RECURSIVE BitShiftLoop(_, _)
BitShiftLoop(n, count) ==
    IF n = 0 THEN count ELSE BitShiftLoop(n \div 2, count + (n % 2))

bit_shift_approach(n) == BitShiftLoop(n, 0)

lookup_table_approach(n) ==
    LET table == <<0, 1, 1, 2, 1, 2, 2, 3, 1, 2, 2, 3, 2, 3, 3, 4>>
    IN  IF n < 16 THEN table[n + 1] ELSE CountChar(Bin(n), "1")

\* n - 1 for n > 0, on bit sets: the lowest 1 bit becomes 0 and the bits below
\* it become 1
MinusOne(x) ==
    LET low == CHOOSE i \in x : \A j \in x : i <= j
    IN  (x \ {low}) \cup (0..(low - 1))

\* Mutation: the lowest bit is shifted out, set or not.
ClearLowestSetBitShifts(x) == Shr(x, 1)

\* n & (n - 1), on bit sets
ClearLowestSetBit(x) == BitAnd(x, MinusOne(x))

\* 0..MaxN and the numbers of test_count_ones and algorithm_comparison
CoInputs == (0..MaxN) \cup {5, 7, 15, 16, 31, 0} \cup {7, 15, 31, 85, 170, 255}

CoInit ==
    /\ co_n \in CoInputs
    /\ co_cur = BitsOf(co_n)
    /\ co_count = 0
    /\ co_pc = "loop"
    /\ co_out = EmptyDict

\* One iteration of while n: count += 1; n &= (n - 1)
CoIterate ==
    /\ co_pc = "loop"
    /\ co_cur # {}
    /\ co_count' = co_count + 1
    /\ co_cur' = ClearLowestSetBit(co_cur)
    /\ UNCHANGED <<co_n, co_pc, co_out, notCo>>

\* return count
CoReturn ==
    /\ co_pc = "loop"
    /\ co_cur = {}
    /\ co_out' = DictSet(co_out, "kernighan", co_count)
    /\ co_pc' = "compare"
    /\ UNCHANGED <<co_n, co_cur, co_count, notCo>>

CoDone(out) == IF {"kernighan", "basic", "shift", "lookup"} \subseteq DOMAIN out
               THEN "done" ELSE "compare"

\* basic_result = count_ones_basic(num)
CoBasic ==
    /\ co_pc = "compare"
    /\ "basic" \notin DOMAIN co_out
    /\ co_out' = DictSet(co_out, "basic", count_ones_basic(co_n))
    /\ co_pc' = CoDone(co_out')
    /\ UNCHANGED <<co_n, co_cur, co_count, notCo>>

\* shift = bit_shift_approach(num)
CoShift ==
    /\ co_pc = "compare"
    /\ "shift" \notin DOMAIN co_out
    /\ co_out' = DictSet(co_out, "shift", bit_shift_approach(co_n))
    /\ co_pc' = CoDone(co_out')
    /\ UNCHANGED <<co_n, co_cur, co_count, notCo>>

\* lookup = lookup_table_approach(num)
CoLookup ==
    /\ co_pc = "compare"
    /\ "lookup" \notin DOMAIN co_out
    /\ co_out' = DictSet(co_out, "lookup", lookup_table_approach(co_n))
    /\ co_pc' = CoDone(co_out')
    /\ UNCHANGED <<co_n, co_cur, co_count, notCo>>

CoNext == CoIterate \/ CoReturn \/ CoBasic \/ CoShift \/ CoLookup

CoIdle ==
    /\ co_n = 0
    /\ co_cur = {}
    /\ co_count = 0
    /\ co_pc = "idle"
    /\ co_out = <<>>

-----------------------------------------------------------------------------
(* apple_silicon_validation_practice.py: two_sum                           *)

MaxNums == 3
MaxNum == 3

\* Mutation: the current index is returned first.
FoundPairSwapped(num_map, complement, i) == <<i, num_map[complement]>>

\* return [num_map[complement], i]
FoundPair(num_map, complement, i) == <<num_map[complement], i>>

\* The for loop of two_sum from index i (0-based) on; num_map maps a value to
\* the last index at which it was seen.
RECURSIVE TwoSumLoop(_, _, _, _)
TwoSumLoop(nums, target, i, num_map) ==
    IF i >= Len(nums) THEN <<>>
    ELSE LET num == nums[i + 1]
             complement == target - num
         IN  IF complement \in DOMAIN num_map
             THEN FoundPair(num_map, complement, i)
             ELSE TwoSumLoop(nums, target, i + 1, DictSet(num_map, num, i))

two_sum(nums, target) == TwoSumLoop(nums, target, 0, EmptyDict)

\* two_sum_deep_dive.py: the same loop
optimized_two_sum(nums, target) == TwoSumLoop(nums, target, 0, EmptyDict)

robust_two_sum(nums, target) ==
    IF Len(nums) < 2 THEN <<>>
    ELSE LET elems == {nums[j] : j \in DOMAIN nums}
             lo == CHOOSE x \in elems : \A y \in elems : x <= y
             hi == CHOOSE x \in elems : \A y \in elems : x >= y
         IN  IF target < lo + lo \/ target > hi + hi THEN <<>>
             ELSE optimized_two_sum(nums, target)

\* test_cases of test_two_sum
TsTestCases ==
    {<< <<2, 7, 11, 15>>, 9>>, << <<3, 2, 4>>, 6>>, << <<3, 3>>, 6>>,
     << <<1, 2, 3, 4, 5>>, 8>>}

TsInit ==
    /\ \/ /\ ts_nums \in SeqsUpTo((0 - 1)..MaxNum, MaxNums)
          /\ ts_target \in (0 - 3)..(2 * MaxNum + 1)
       \/ \E c \in TsTestCases : ts_nums = c[1] /\ ts_target = c[2]
    /\ ts_pc = "run"
    /\ ts_ret = EmptyDict

\* result = two_sum(nums, target)
TsCall ==
    /\ ts_pc = "run"
    /\ "two_sum" \notin DOMAIN ts_ret
    /\ ts_ret' = DictSet(ts_ret, "two_sum", two_sum(ts_nums, ts_target))
    /\ ts_pc' = IF "robust_two_sum" \in DOMAIN ts_ret THEN "done" ELSE "run"
    /\ UNCHANGED <<ts_nums, ts_target, notTs>>

\* robust_two_sum(nums, target)
TsCallRobust ==
    /\ ts_pc = "run"
    /\ "robust_two_sum" \notin DOMAIN ts_ret
    /\ ts_ret' = DictSet(ts_ret, "robust_two_sum", robust_two_sum(ts_nums, ts_target))
    /\ ts_pc' = IF "two_sum" \in DOMAIN ts_ret THEN "done" ELSE "run"
    /\ UNCHANGED <<ts_nums, ts_target, notTs>>

TsNext == TsCall \/ TsCallRobust

TsIdle ==
    /\ ts_nums = <<>>
    /\ ts_target = 0
    /\ ts_pc = "idle"
    /\ ts_ret = <<>>

-----------------------------------------------------------------------------
(* apple_silicon_validation_practice.py: binary_search                     *)

MaxArr == 4
MaxElem == 3

\* mid = (left + right) // 2 in binary_search,
\* mid = left + (right - left) // 2 in safe_binary_search
MidPoint(fn, left, right) ==
    IF fn = "binary_search" THEN (left + right) \div 2
    ELSE left + (right - left) \div 2

\* Mutation: mid stays in the search space.
NextRightKeepsMid(mid) == mid

\* right = mid - 1
NextRight(mid) == mid - 1

\* The ascending lists of up to MaxArr elements, and the array of
\* test_binary_search.
BsArrays ==
    {a \in SeqsUpTo(0..MaxElem, MaxArr) : \A j \in 1..(Len(a) - 1) : a[j] <= a[j + 1]}
    \cup {<<1, 3, 5, 7, 9, 11, 13, 15>>}

BsInit ==
    /\ bs_fn \in {"binary_search", "safe_binary_search"}
    /\ bs_arr \in BsArrays
    /\ bs_target \in ((0 - 1)..(MaxElem + 1)) \cup {7, 1, 15, 6, 0, 20}
    /\ bs_left = 0
    /\ bs_right = 0
    /\ bs_pc = "start"
    /\ bs_ret = 0

\* if not arr: return -1 (safe_binary_search); left, right = 0, len(arr) - 1
BsEnter ==
    /\ bs_pc = "start"
    /\ IF bs_fn = "safe_binary_search" /\ bs_arr = <<>>
       THEN bs_ret' = 0 - 1 /\ bs_pc' = "done" /\ UNCHANGED <<bs_left, bs_right>>
       ELSE /\ bs_left' = 0
            /\ bs_right' = Len(bs_arr) - 1
            /\ bs_pc' = "loop"
            /\ bs_ret' = bs_ret
    /\ UNCHANGED <<bs_fn, bs_arr, bs_target, notBs>>

\* One iteration of while left <= right
BsProbe ==
    /\ bs_pc = "loop"
    /\ bs_left <= bs_right
    /\ LET mid == MidPoint(bs_fn, bs_left, bs_right)
       IN  IF bs_arr[mid + 1] = bs_target
           THEN bs_ret' = mid /\ bs_pc' = "done" /\ UNCHANGED <<bs_left, bs_right>>
           ELSE IF bs_arr[mid + 1] < bs_target
           THEN bs_left' = mid + 1 /\ UNCHANGED <<bs_right, bs_pc, bs_ret>>
           ELSE bs_right' = NextRight(mid) /\ UNCHANGED <<bs_left, bs_pc, bs_ret>>
    /\ UNCHANGED <<bs_fn, bs_arr, bs_target, notBs>>

\* return -1
BsNotFound ==
    /\ bs_pc = "loop"
    /\ bs_left > bs_right
    /\ bs_ret' = 0 - 1
    /\ bs_pc' = "done"
    /\ UNCHANGED <<bs_fn, bs_arr, bs_target, bs_left, bs_right, notBs>>

BsNext == BsEnter \/ BsProbe \/ BsNotFound

BsIdle ==
    /\ bs_fn = "none"
    /\ bs_arr = <<>>
    /\ bs_target = 0
    /\ bs_left = 0
    /\ bs_right = 0
    /\ bs_pc = "idle"
    /\ bs_ret = 0

-----------------------------------------------------------------------------
(* RegisterSimulator and AdvancedRegisterSimulator                         *)
(*                                                                         *)
(* The register is the set of the positions of its 1 bits.  Field values   *)
(* passed to insert_field and returned by extract_field are integers.      *)

MaxWidth == 3

RegClasses == {"RegisterSimulator", "AdvancedRegisterSimulator"}

\* Mutation: no position is rejected.
ValidatePositionAlways(position, width) == TRUE

\* 0 <= position < self.size, _validate_position(position)
ValidatePosition(position, width) == 0 <= position /\ position < width

\* The result of the bit operation op at a valid position
BitOperation(op, value, position) ==
    IF op = "set_bit" THEN BitOr(value, Shl({0}, position))
    ELSE IF op = "clear_bit" THEN value \ Shl({0}, position)
    ELSE BitXor(value, Shl({0}, position))

\* _log_operation(operation, position, old_value, new_value)
LogEntry(operation, position, old_value, new_value, width) ==
    [operation  |-> operation,
     position   |-> position,
     old_value  |-> old_value,
     new_value  |-> new_value,
     old_binary |-> FormatBinary(old_value, width),
     new_binary |-> FormatBinary(new_value, width)]

\* The operation names logged by AdvancedRegisterSimulator
LogName(op) ==
    IF op = "set_bit" THEN "SET" ELSE IF op = "clear_bit" THEN "CLEAR" ELSE "TOGGLE"

\* Mutation: the mask is not moved to the field.
FieldMaskUnshifted(start_bit, width) == 0..(width - 1)

\* mask = ((1 << width) - 1) << start_bit
FieldMask(start_bit, width) == Shl(0..(width - 1), start_bit)

\* extract_field(start_bit, width) on a register of reg_w bits
extract_field(value, reg_w, start_bit, width) ==
    IF start_bit + width > reg_w THEN None
    ELSE Some(ValOf(BitAnd(Shr(value, start_bit), 0..(width - 1))))

\* f"{start_bit}:{start_bit+width-1}"
FieldName(start_bit, width) == <<ToString(start_bit), ":", ToString(start_bit + width - 1)>>

RegInit ==
    /\ reg_class \in RegClasses
    /\ reg_width \in 1..MaxWidth
    /\ reg_value = {}
    /\ reg_call = <<"__init__">>
    /\ reg_ret = None
    /\ reg_logged = <<>>

\* The method op, one of set_bit, clear_bit and toggle_bit, called with every
\* position from -1 to the width
RegBitOp(op) ==
    \E position \in (0 - 1)..reg_width :
        LET valid == ValidatePosition(position, reg_width)
            new == IF valid THEN BitOperation(op, reg_value, position) ELSE reg_value
        IN  /\ reg_class \in RegClasses
            /\ reg_value' = new
            /\ reg_call' = <<op, position>>
            /\ reg_ret' = IF reg_class = "RegisterSimulator" THEN None ELSE Some(valid)
            /\ reg_logged' = IF reg_class = "AdvancedRegisterSimulator" /\ valid
                             THEN <<LogEntry(LogName(op), position, reg_value, new, reg_width)>>
                             ELSE <<>>
            /\ UNCHANGED <<reg_class, reg_width, notReg>>

RegSetBit == RegBitOp("set_bit")

RegClearBit == RegBitOp("clear_bit")

RegToggleBit == RegBitOp("toggle_bit")

\* get_bit(position) of RegisterSimulator, test_bit(position) of
\* AdvancedRegisterSimulator
RegTestBit ==
    \E position \in (0 - 1)..reg_width :
        LET valid == ValidatePosition(position, reg_width)
        IN  /\ reg_class \in RegClasses
            /\ reg_call' = <<IF reg_class = "RegisterSimulator" THEN "get_bit" ELSE "test_bit",
                             position>>
            /\ reg_ret' = IF reg_class = "RegisterSimulator"
                          THEN Some(IF valid THEN ValOf(BitAnd(Shr(reg_value, position), {0}))
                                    ELSE 0)
                          ELSE Some(valid /\ BitAnd(reg_value, Shl({0}, position)) # {})
            /\ reg_logged' = <<>>
            /\ UNCHANGED <<reg_class, reg_width, reg_value, notReg>>

\* reset() of RegisterSimulator; for AdvancedRegisterSimulator the assignment
\* field_reg.value = 0 of test_field_isolation
RegReset ==
    /\ reg_class \in RegClasses
    /\ reg_value' = {}
    /\ reg_call' = <<"reset">>
    /\ reg_ret' = None
    /\ reg_logged' = <<>>
    /\ UNCHANGED <<reg_class, reg_width, notReg>>

\* The values tried for a field: 0 to 2^width, the last one too large; 0 and 1
\* for a field that extends beyond the register.
FieldValues(reg_w, start_bit, width) ==
    0..(IF start_bit + width > reg_w THEN 1 ELSE Pow2(width))

\* insert_field(start_bit, width, value)
RegInsertField ==
    \E start_bit \in 0..reg_width, width \in 0..(reg_width + 1) :
      \E value \in FieldValues(reg_width, start_bit, width) :
        LET fits == ~(start_bit + width > reg_width) /\ ~(value >= Pow2(width))
            new == IF fits
                   THEN BitOr(reg_value \ FieldMask(start_bit, width),
                              Shl(BitsOf(value), start_bit))
                   ELSE reg_value
        IN  /\ reg_class = "AdvancedRegisterSimulator"
            /\ reg_value' = new
            /\ reg_call' = <<"insert_field", start_bit, width, value>>
            /\ reg_ret' = Some(fits)
            /\ reg_logged' = IF fits
                             THEN <<LogEntry("INSERT_FIELD", FieldName(start_bit, width),
                                             reg_value, new, reg_width)>>
                             ELSE <<>>
            /\ UNCHANGED <<reg_class, reg_width, notReg>>

\* extract_field(start_bit, width)
RegExtractField ==
    \E start_bit \in 0..reg_width, width \in 0..(reg_width + 1) :
        /\ reg_class = "AdvancedRegisterSimulator"
        /\ reg_call' = <<"extract_field", start_bit, width>>
        /\ reg_ret' = extract_field(reg_value, reg_width, start_bit, width)
        /\ reg_logged' = <<>>
        /\ UNCHANGED <<reg_class, reg_width, reg_value, notReg>>

\* ((value << count) | (value >> (width - count))) & max_value
RotateLeft(value, reg_w, count) ==
    BitAnd(BitOr(Shl(value, count), Shr(value, reg_w - count)), 0..(reg_w - 1))

\* ((value >> count) | (value << (width - count))) & max_value
RotateRight(value, reg_w, count) ==
    BitAnd(BitOr(Shr(value, count), Shl(value, reg_w - count)), 0..(reg_w - 1))

\* rotate_left(count) and rotate_right(count), with counts from -1 to one past
\* the width; count %= self.width comes first
RegRotate(op) ==
    \E c \in (0 - 1)..(reg_width + 1) :
        LET count == c % reg_width
            new == IF op = "rotate_left" THEN RotateLeft(reg_value, reg_width, count)
                   ELSE RotateRight(reg_value, reg_width, count)
        IN  /\ reg_class = "AdvancedRegisterSimulator"
            /\ reg_value' = new
            /\ reg_call' = <<op, c>>
            /\ reg_ret' = None
            /\ reg_logged' = <<LogEntry(IF op = "rotate_left" THEN "ROTATE_LEFT"
                                        ELSE "ROTATE_RIGHT",
                                        count, reg_value, new, reg_width)>>
            /\ UNCHANGED <<reg_class, reg_width, notReg>>

RegRotateLeft == RegRotate("rotate_left")

RegRotateRight == RegRotate("rotate_right")

RegNext ==
    \/ RegSetBit \/ RegClearBit \/ RegToggleBit \/ RegTestBit \/ RegReset
    \/ RegInsertField \/ RegExtractField \/ RegRotateLeft \/ RegRotateRight

RegIdle ==
    /\ reg_class = "none"
    /\ reg_width = 0
    /\ reg_value = {}
    /\ reg_call = <<"none">>
    /\ reg_ret = <<>>
    /\ reg_logged = <<>>

-----------------------------------------------------------------------------
(* Specifications: one per script or class.                                *)

TlbIdle == TlbInit(1)

\* The scripts a specification does not run stay as they are.
HwIdle == SwIdle /\ MesiIdle /\ TlbIdle /\ OooIdle /\ GrepIdle

AlgoIdle == LtssmIdle /\ RbIdle /\ P2Idle /\ CoIdle /\ TsIdle /\ BsIdle /\ RegIdle

InitWindow == SwInit /\ MesiIdle /\ TlbIdle /\ OooIdle /\ GrepIdle /\ AlgoIdle

SpecWindow == InitWindow /\ [][SwNext]_vars

InitMesi == MesiInit /\ SwIdle /\ TlbIdle /\ OooIdle /\ GrepIdle /\ AlgoIdle

SpecMesi == InitMesi /\ [][MesiNext]_vars

InitTlb ==
    /\ \E size \in 1..MaxTlbSize : TlbInit(size)
    /\ SwIdle /\ MesiIdle /\ OooIdle /\ GrepIdle /\ AlgoIdle

SpecTlb == InitTlb /\ [][TlbNext]_vars

InitOoo ==
    /\ \E sz \in ProcessorSizes : OooInit(sz[1], sz[2])
    /\ TestIdle /\ SwIdle /\ MesiIdle /\ TlbIdle /\ GrepIdle /\ AlgoIdle

SpecOoo == InitOoo /\ [][OooNext]_vars

InitTest == TestInit /\ SwIdle /\ MesiIdle /\ TlbIdle /\ GrepIdle /\ AlgoIdle

SpecTest == InitTest /\ [][TestNext]_vars

InitGrep == GrepInit /\ SwIdle /\ MesiIdle /\ TlbIdle /\ OooIdle /\ AlgoIdle

SpecGrep == InitGrep /\ [][GrepNext]_vars

InitLtssm == LtssmInit /\ HwIdle /\ RbIdle /\ P2Idle /\ CoIdle /\ TsIdle /\ BsIdle /\ RegIdle

SpecLtssm == InitLtssm /\ [][LtssmNext]_vars

InitRb == RbInit /\ HwIdle /\ LtssmIdle /\ P2Idle /\ CoIdle /\ TsIdle /\ BsIdle /\ RegIdle

SpecRb == InitRb /\ [][RbNext]_vars

InitP2 == P2Init /\ HwIdle /\ LtssmIdle /\ RbIdle /\ CoIdle /\ TsIdle /\ BsIdle /\ RegIdle

\* The test runs to its end: a step that can be taken is taken.
SpecP2 == InitP2 /\ [][P2Next]_vars /\ WF_vars(P2Next)

InitCo == CoInit /\ HwIdle /\ LtssmIdle /\ RbIdle /\ P2Idle /\ TsIdle /\ BsIdle /\ RegIdle

\* The comparison runs to its end: a step that can be taken is taken.
SpecCo == InitCo /\ [][CoNext]_vars /\ WF_vars(CoNext)

InitTs == TsInit /\ HwIdle /\ LtssmIdle /\ RbIdle /\ P2Idle /\ CoIdle /\ BsIdle /\ RegIdle

SpecTs == InitTs /\ [][TsNext]_vars

InitBs == BsInit /\ HwIdle /\ LtssmIdle /\ RbIdle /\ P2Idle /\ CoIdle /\ TsIdle /\ RegIdle

\* The call runs to its end: a step that can be taken is taken.
SpecBs == InitBs /\ [][BsNext]_vars /\ WF_vars(BsNext)

InitReg == RegInit /\ HwIdle /\ LtssmIdle /\ RbIdle /\ P2Idle /\ CoIdle /\ TsIdle /\ BsIdle

SpecReg == InitReg /\ [][RegNext]_vars

-----------------------------------------------------------------------------
(* Claims                                                                  *)

\* The elements of the window that starts at 0-based index i.
WindowElems(lat, k, i) == {lat[j] : j \in (i + 1)..(i + k)}

\* The (min, sum/k, max) of every window, stated directly.
WindowStatsAsSpecified(lat, k, res) ==
    /\ Len(res) = Len(lat) - k + 1
    /\ \A i \in 0..(Len(lat) - k) :
          /\ res[i + 1][1] \in WindowElems(lat, k, i)
          /\ \A x \in WindowElems(lat, k, i) : NumLE(res[i + 1][1], x)
          /\ res[i + 1][3] \in WindowElems(lat, k, i)
          /\ \A x \in WindowElems(lat, k, i) : NumLE(x, res[i + 1][3])
          /\ res[i + 1][2] = TrueDiv(SeqSum(SubSeq(lat, i + 1, i + k)), k)

SwValidInput == sw_latencies # <<>> /\ sw_k >= 1 /\ sw_k <= Len(sw_latencies)

\* C1: for every list of integer latencies and every k, sliding_window_stats
\* returns the n-k+1 tuples (min, sum/k, max) of the windows, the same list
\* sliding_window_stats_simple returns, and both return [] for an empty
\* list, k <= 0 or k > n.
C1_WindowStatsMatchSimple ==
    sw_pc = "done" =>
        /\ sw_opt = sw_simple
        /\ SwValidInput => WindowStatsAsSpecified(sw_latencies, sw_k, sw_opt)
        /\ ~SwValidInput => sw_opt = <<>> /\ sw_simple = <<>>

\* The same statement for latencies whose sums a double holds exactly.
SwExactRange == \A i \in 1..Len(sw_latencies) : sw_latencies[i].big = 0

C1_ExactRangeMatchSimple ==
    (sw_pc = "done" /\ SwExactRange) =>
        /\ sw_opt = sw_simple
        /\ SwValidInput => WindowStatsAsSpecified(sw_latencies, sw_k, sw_opt)
        /\ ~SwValidInput => sw_opt = <<>> /\ sw_simple = <<>>

\* C1 holds of the reference implementation for every input.
C1_SimpleAsSpecified ==
    sw_pc = "done" =>
        /\ SwValidInput => WindowStatsAsSpecified(sw_latencies, sw_k, sw_simple)
        /\ ~SwValidInput => sw_simple = <<>>

\* What the bus log of the last call shows.
BusLogged(core, kind, address) ==
    \E i \in DOMAIN bus_appended :
        /\ bus_appended[i][1] = core
        /\ bus_appended[i][2] = kind
        /\ bus_appended[i][3] = address

\* The client has an instance to call: construction returned one.
HasInstance == mesi_pc = "ready" /\ DOMAIN caches = Cores

ProgHas(kind) == \E i \in DOMAIN mesi_prog : mesi_prog[i][1] = kind

\* C2: after any sequence of read_request and write_request calls on a
\* CacheCoherencyValidator, validate_coherency() returns no violations: at
\* most one cache holds an address Modified, a Modified or Exclusive copy is
\* the only cached copy, and several copies of an address are all Shared.
\* Stated of the client: once it has constructed its validator it has an
\* instance, and after whatever calls it made the instance is coherent.
C2_NoCoherencyViolations ==
    mesi_pc # "start" =>
        /\ HasInstance
        /\ validate_coherency(caches) = {}
        /\ \A a \in Addrs :
              /\ Cardinality(HoldersIn(caches, a, MODIFIED)) <= 1
              /\ \A c \in Holders(caches, a) :
                    caches[c][a].state \in {MODIFIED, EXCLUSIVE} => Holders(caches, a) = {c}
              /\ Cardinality(Holders(caches, a)) > 1 =>
                    \A c \in Holders(caches, a) : caches[c][a].state = SHARED

\* C3: a read_request that misses leaves the requester's line Exclusive when
\* no other cache holds the address and Shared when some other cache holds
\* it; then every other holder's copy is Shared afterwards, and a previously
\* Modified holder has written its data back to memory.
\* Stated of the client: a client with a read to make has an instance to
\* make it on, and after a read that missed the caches are as described.
C3_ReadMiss ==
    (mesi_pc # "start" /\ ProgHas("read")) =>
        /\ HasInstance
        /\ \A c \in Cores, a \in Addrs :
              (mesi_call = <<"read", c, a>> /\ BusLogged(c, "READ MISS", a)) =>
                  LET others == Holders(caches, a) \ {c}
                      expected == IF others = {} THEN EXCLUSIVE ELSE SHARED
                  IN  /\ a \in DOMAIN caches[c]
                      /\ caches[c][a].state = expected
                      /\ mesi_ret[2] = expected
                      /\ \A o \in others :
                            /\ caches[o][a].state = SHARED
                            /\ BusLogged(o, "WRITEBACK", a) =>
                                  /\ memory[a] = caches[o][a].data
                                  /\ caches[c][a].data = caches[o][a].data

\* C4: after write_request(core, address, data) the writer holds the address
\* Modified with the written data, no other cache contains the address (a
\* Modified copy having been written back to memory first), and the call
\* returns 'M'.
\* Stated of the client: a client with a write to make has an instance to
\* make it on, and after a write the caches are as described.
C4_Write ==
    (mesi_pc # "start" /\ ProgHas("write")) =>
        /\ HasInstance
        /\ \A c \in Cores, a \in Addrs, d \in Data :
              mesi_call = <<"write", c, a, d>> =>
                  /\ a \in DOMAIN caches[c]
                  /\ caches[c][a] = Line(d, MODIFIED)
                  /\ Holders(caches, a) = {c}
                  /\ mesi_ret = MODIFIED
                  /\ \A o \in Cores \ {c} :
                        BusLogged(o, "WRITEBACK", a) => a \in DOMAIN memory


\* The number of the last call that translated an address of virtual page p.
LastAccess(log, p) == CHOOSE i \in DOMAIN log :
                          log[i] = p /\ \A j \in DOMAIN log : log[j] = p => j <= i

C8_Capacity == Cardinality(DOMAIN tlb) <= tlb_size

C8_EvictionStep ==
    LET evicted == DOMAIN tlb \ DOMAIN tlb'
        installed == Last(access_log')
    IN  evicted # {} =>
            /\ access_log' = Append(access_log, installed)
            /\ installed \notin DOMAIN tlb
            /\ installed \in DOMAIN tlb'
            /\ Cardinality(DOMAIN tlb) = tlb_size
            /\ Cardinality(evicted) = 1
            /\ \A e \in evicted : \A q \in DOMAIN tlb \ {e} :
                  LastAccess(access_log, e) < LastAccess(access_log, q)

\* C8: the TLB never holds more than tlb_size entries, an entry is evicted
\* only when a translation for a page absent from a full TLB is installed,
\* and the evicted entry is the one whose most recent access (hit or
\* installation) is the oldest.
C8_TlbLru == [](C8_Capacity) /\ [][C8_EvictionStep]_vars

\* Reached: with two entries, page 0 was installed first but hit again before
\* page 2 arrived, so page 1 (not the oldest installation) was evicted.
C8_Witness ==
    /\ tlb_size = 2
    /\ access_log = <<0, 1, 0, 2>>
    /\ DOMAIN tlb = {0, 2}

Range(f) == {f[x] : x \in DOMAIN f}

C9_Counters ==
    /\ hits + misses = Len(access_log)
    /\ access_counter = Len(access_log)
    /\ page_faults <= misses

C9_ClassifyStep ==
    access_log' # access_log =>
        LET vp == Last(access_log')
            status == tlb_ret'[2]
        IN  /\ status \in {"TLB_HIT", "PAGE_FAULT", "TLB_MISS"}
            /\ status = "TLB_HIT" <=> vp \in DOMAIN tlb
            /\ status = "PAGE_FAULT" <=> vp \notin DOMAIN page_table
            /\ status = "PAGE_FAULT" <=> vp \notin Range(access_log)
            /\ status = "TLB_MISS" <=> (vp \in DOMAIN page_table /\ vp \notin DOMAIN tlb)
            /\ hits' + misses' = hits + misses + 1
            /\ hits' = hits + 1 <=> status = "TLB_HIT"
            /\ page_faults' = page_faults + 1 <=> status = "PAGE_FAULT"

\* C9: translate_address returns TLB_HIT exactly when the virtual page has a
\* TLB entry at call time, PAGE_FAULT exactly when the page has no page-table
\* entry (first touch), TLB_MISS exactly when the page is in the page table
\* but no longer in the TLB; hits + misses is the number of calls and
\* page_faults <= misses.
C9_Classification == [](C9_Counters) /\ [][C9_ClassifyStep]_vars

\* Reached: all three outcomes have occurred, the last call being a TLB_MISS
\* on a page that had been evicted.
C9_Witness ==
    /\ hits >= 1
    /\ page_faults >= 2
    /\ misses > page_faults
    /\ tlb_ret[2] = "TLB_MISS"


\* C5: every instruction issue_instruction accepted is eventually completed
\* and committed under repeated execute_cycle calls: when the test's loop has
\* ended, the reorder buffer, the reservation stations and the execution
\* units are empty and validate_correctness reports neither 'Deadlock' nor
\* 'Incomplete execution'.
C5_NoDeadlock ==
    t_pc = "done" =>
        /\ reorder_buffer = <<>>
        /\ reservation_stations = <<>>
        /\ \A u \in DOMAIN execution_units : execution_units[u] = 0
        /\ \A id \in DOMAIN instrs : instrs[id].completed
        /\ Len(committed) = Len(instrs)
        /\ \A v \in t_violations : v[1] \notin {"Deadlock", "Incomplete execution"}

\* C6: after the test program is issued and run until the processor is idle
\* or 20 cycles pass, the register file holds R1=10, R2=15, R3=20, R4=35 and
\* validate_correctness returns no violations.
C6_TestProgramRegisters ==
    (t_pc = "done" /\ t_program = TestProgram /\ t_expected = TestExpected) =>
        /\ register_file[1] = 10
        /\ register_file[2] = 15
        /\ register_file[3] = 20
        /\ register_file[4] = 35
        /\ t_violations = {}

\* C7: an instruction leaves the reorder buffer only from its head and only
\* once it is completed, so the instructions commit in exactly the order in
\* which issue_instruction accepted them: the committed instructions followed
\* by the reorder buffer are the accepted instructions in order of acceptance.
C7_CommitInProgramOrder ==
    /\ committed \o reorder_buffer = [j \in 1..Len(instrs) |-> j]
    /\ \A j \in DOMAIN committed : instrs[committed[j]].completed

\* Reached: two instructions have committed, the second of which completed
\* execution before the first.
C7_Witness ==
    /\ Len(committed) >= 2
    /\ instrs[2].cycle_completed < instrs[1].cycle_completed
    /\ instrs[2].cycle_completed > 0


\* The positions of the file's characters that end a line terminator: a '\n',
\* or a '\r' that no '\n' follows.
BreakEnds(text) ==
    {e \in DOMAIN text :
        \/ text[e] = LF
        \/ text[e] = CR /\ ~(e < Len(text) /\ text[e + 1] = LF)}

\* The position in the file where the terminator ending at e begins.
BreakStart(text, e) ==
    IF text[e] = LF /\ e > 1 /\ text[e - 1] = CR THEN e - 1 ELSE e

\* The position after the last terminator before position p (1 if none).
LineStart(text, p) ==
    LET before == {e \in BreakEnds(text) : e < p}
    IN  IF before = {} THEN 1
        ELSE (CHOOSE e \in before : \A f \in before : f <= e) + 1

\* The lines of the file without their terminators, derived from the
\* positions of the terminators.
FileLines(text) ==
    LET ends == BreakEnds(text)
        ordered == [j \in 1..Cardinality(ends) |->
                       CHOOSE e \in ends : Cardinality({f \in ends : f <= e}) = j]
        terminated == [j \in 1..Cardinality(ends) |->
                          SubSeq(text, LineStart(text, ordered[j]),
                                 BreakStart(text, ordered[j]) - 1)]
        rest == SubSeq(text, LineStart(text, Len(text) + 1), Len(text))
    IN  IF rest = <<>> THEN terminated ELSE Append(terminated, rest)

\* C10: grep_with_context returns, in file order, exactly one triple
\* (prev, match, next) for each line that contains the pattern, prev and next
\* being the adjacent lines without their terminators, prev None for the
\* first line of the file and next None for the last.
C10_GrepTriples ==
    (g_pc = "done" /\ g_exists) =>
        LET lines == FileLines(g_text)
            matching == {i \in DOMAIN lines : Contains(lines[i], g_pattern)}
            nth(j) == CHOOSE i \in matching : Cardinality({m \in matching : m <= i}) = j
        IN  /\ Len(g_result) = Cardinality(matching)
            /\ \A j \in DOMAIN g_result :
                  /\ g_result[j][2] = lines[nth(j)]
                  /\ g_result[j][1] = IF nth(j) = 1 THEN None ELSE Some(lines[nth(j) - 1])
                  /\ g_result[j][3] = IF nth(j) = Len(lines) THEN None
                                      ELSE Some(lines[nth(j) + 1])

\* Reached: a file with the three kinds of terminator, whose first and last
\* lines both match.
C10_Witness ==
    /\ g_pc = "done"
    /\ g_text = <<"a", CR, LF, CR, "a">>
    /\ g_pattern = <<"a">>
    /\ g_result = << <<None, <<"a">>, Some(<<>>)>>, <<Some(<<>>), <<"a">>, None>> >>

-----------------------------------------------------------------------------
(* parse-ltssm-logfile.py: claims                                          *)

\* The timestamps of the L0 events of a trace.
L0Times(events) == {events[j].timestamp : j \in {k \in DOMAIN events : events[k].state = "L0"}}

\* C11: first_l0_time is the timestamp of the earliest event whose state is
\* L0, whatever its position in the trace, the first row included; it is None
\* exactly when the trace holds no L0 event.
C11_FirstL0IsEarliest ==
    (l_pc = "done" /\ l_ok) =>
        IF L0Times(l_events) = {}
        THEN l_analysis.first_l0_time = None
        ELSE l_analysis.first_l0_time =
                 Some(CHOOSE t \in L0Times(l_events) :
                          \A u \in L0Times(l_events) : DoubleLE(t, u))

\* The rows (1-based) at which a maximal run of Recovery events starts.
RunStarts(events) ==
    {a \in DOMAIN events : /\ events[a].state = "Recovery"
                           /\ (a = 1 \/ events[a - 1].state # "Recovery")}

\* The row that ends the run starting at row a: the first following row that is
\* not Recovery, the last row when the trace ends inside the run.
RunEnd(events, a) ==
    LET after == {b \in DOMAIN events : b > a /\ events[b].state # "Recovery"}
    IN  IF after = {} THEN Len(events)
        ELSE CHOOSE b \in after : \A c \in after : b <= c

RunDwell(events, a) == DoubleSub(events[RunEnd(events, a)].timestamp, events[a].timestamp)

\* C12: longest_recovery_dwell is the maximum, over the maximal runs of
\* consecutive Recovery events, of the time from the first Recovery event of
\* the run to the first following event that is not Recovery (to the last
\* event when the trace ends inside the run), and 0 for a trace that never
\* enters Recovery.
C12_LongestRecoveryDwell ==
    l_pc = "done" =>
        LET dwells == {RunDwell(l_events, a) : a \in RunStarts(l_events)} \cup {Zero}
        IN  l_analysis.longest_recovery_dwell =
                CHOOSE d \in dwells : \A e \in dwells : DoubleLE(e, d)

\* Reached: a trace with three Recovery runs of different, non-zero dwells,
\* the first two closed inside the loop and the last one by the end of the
\* trace; the longest is neither the first nor the last.
C12_Witness ==
    /\ l_pc = "done"
    /\ \E a, b, c \in RunStarts(l_events) :
          /\ a < b /\ b < c
          /\ RunDwell(l_events, a) # Zero
          /\ RunDwell(l_events, c) # Zero
          /\ RunDwell(l_events, a) # RunDwell(l_events, b)
          /\ DoubleLE(RunDwell(l_events, a), RunDwell(l_events, b))
          /\ RunDwell(l_events, c) # RunDwell(l_events, b)
          /\ DoubleLE(RunDwell(l_events, c), RunDwell(l_events, b))
          /\ RunEnd(l_events, c) = Len(l_events)
          /\ l_analysis.longest_recovery_dwell = RunDwell(l_events, b)

-----------------------------------------------------------------------------
(* appl-reverse-bits.py: claims                                            *)

\* C13: for a 32-bit n, bit i of reverse_bits(n) is bit 31-i of n
\* (reverse_bits(13) = 2952790016 = 11 * 2^28 and reverse_bits(0x80000000) = 1);
\* reverse_bits_optimized and reverse_bits_builtin return the same value, and
\* reverse_bits applied twice returns n.
C13_ReverseBits ==
    /\ "basic" \in DOMAIN rb_out =>
          /\ rb_out["basic"] \subseteq Mask32
          /\ \A i \in Mask32 : i \in rb_out["basic"] <=> (31 - i) \in rb_n
          /\ rb_n = BitsOf(13) => rb_out["basic"] = Shl(BitsOf(11), 28)
          /\ rb_n = {31} => rb_out["basic"] = BitsOf(1)
    /\ \A f \in {"optimized", "builtin"} :
          {"basic", f} \subseteq DOMAIN rb_out => rb_out[f] = rb_out["basic"]
    /\ "twice" \in DOMAIN rb_out => rb_out["twice"] = rb_n

\* Reached: the three functions and the double reversal have run on 13.
C13_Witness ==
    /\ rb_pc = "done"
    /\ rb_n = BitsOf(13)
    /\ rb_out["optimized"] = Shl(BitsOf(11), 28)
    /\ rb_out["builtin"] = Shl(BitsOf(11), 28)
    /\ rb_out["twice"] = BitsOf(13)

-----------------------------------------------------------------------------
(* 1-power_of_2.py: claims                                                 *)

IsPowerOfTwo(n) == \E k \in 0..30 : n = Pow2(k)

\* C14: for every integer n, negative, zero or positive,
\* is_power_of_two_basic(n) and is_power_of_two_bit_manipulation(n) both
\* terminate and return the same result, which is True exactly when
\* n = 2^k for some k >= 0.
C14_PowerOfTwo ==
    <>(/\ p2_pc = "done"
       /\ p2_basic = p2_bit
       /\ p2_basic = IsPowerOfTwo(p2_n))

\* Reached: both functions have returned True for 8, the loop having divided
\* three times.
C14_Witness ==
    /\ p2_pc = "done"
    /\ p2_n = 8
    /\ p2_cur = 1
    /\ p2_basic
    /\ p2_bit

-----------------------------------------------------------------------------
(* two_sum: claims                                                         *)

\* The pairs of distinct 0-based indices whose values sum to target.
SumPairs(nums, target) ==
    {p \in (0..(Len(nums) - 1)) \X (0..(Len(nums) - 1)) :
        p[1] < p[2] /\ nums[p[1] + 1] + nums[p[2] + 1] = target}

\* C15: two_sum(nums, target) returns [i, j] with i < j and
\* nums[i] + nums[j] = target whenever two distinct indices with that sum
\* exist (equal values included), and [] exactly when there is no such pair;
\* two_sum([2,7,11,15], 9) is [0,1].
C15_TwoSum ==
    /\ \A f \in DOMAIN ts_ret :
          IF SumPairs(ts_nums, ts_target) = {}
          THEN ts_ret[f] = <<>>
          ELSE ts_ret[f] \in SumPairs(ts_nums, ts_target)
    /\ ("two_sum" \in DOMAIN ts_ret /\ ts_nums = <<2, 7, 11, 15>> /\ ts_target = 9) =>
          ts_ret["two_sum"] = <<0, 1>>

\* Reached: equal values at distinct indices, [3,3] with target 6.
C15_Witness ==
    /\ ts_pc = "done"
    /\ ts_nums = <<3, 3>>
    /\ ts_target = 6
    /\ ts_ret["two_sum"] = <<0, 1>>
    /\ ts_ret["robust_two_sum"] = <<0, 1>>

-----------------------------------------------------------------------------
(* binary_search: claims                                                   *)

\* C16: for every ascending list arr, the empty list included, and every
\* target, binary_search(arr, target) terminates; it returns an index i with
\* arr[i] = target when target occurs in arr and -1 when it does not.
C16_BinarySearch ==
    <>(/\ bs_pc = "done"
       /\ IF \E j \in DOMAIN bs_arr : bs_arr[j] = bs_target
          THEN bs_ret \in 0..(Len(bs_arr) - 1) /\ bs_arr[bs_ret + 1] = bs_target
          ELSE bs_ret = 0 - 1)

\* Reached: the last element of the test array, found when the search space
\* has shrunk to it.
C16_Witness ==
    /\ bs_pc = "done"
    /\ bs_fn = "binary_search"
    /\ bs_arr = <<1, 3, 5, 7, 9, 11, 13, 15>>
    /\ bs_target = 15
    /\ bs_left = 7
    /\ bs_right = 7
    /\ bs_ret = 7

-----------------------------------------------------------------------------
(* RegisterSimulator and AdvancedRegisterSimulator: claims                 *)

\* C17: set_bit(p), clear_bit(p) and toggle_bit(p) with 0 <= p < width make
\* bit p 1, 0 and its complement and leave every other bit unchanged; a
\* position outside [0, width-1] leaves the register unchanged; the value stays
\* within [0, 2^width - 1] after any sequence of these operations and reset.
C17_BitOperations ==
    /\ [](reg_value \subseteq 0..(reg_width - 1))
    /\ [][reg_call'[1] \in {"set_bit", "clear_bit", "toggle_bit"} =>
            LET p == reg_call'[2]
            IN  IF 0 <= p /\ p < reg_width
                THEN /\ reg_value' \ {p} = reg_value \ {p}
                     /\ reg_call'[1] = "set_bit" => p \in reg_value'
                     /\ reg_call'[1] = "clear_bit" => p \notin reg_value'
                     /\ reg_call'[1] = "toggle_bit" => (p \in reg_value' <=> p \notin reg_value)
                ELSE reg_value' = reg_value]_vars

\* Reached: toggle_bit(1) has cleared bit 1 of 0b111 in a 3-bit
\* AdvancedRegisterSimulator.
C17_Witness ==
    /\ reg_class = "AdvancedRegisterSimulator"
    /\ reg_width = 3
    /\ reg_call = <<"toggle_bit", 1>>
    /\ reg_value = {0, 2}
    /\ reg_logged = <<LogEntry("TOGGLE", 1, {0, 1, 2}, {0, 2}, 3)>>

\* C18: after a successful insert_field(start, width, v), with
\* start + width <= register width and 0 <= v < 2^width,
\* extract_field(start, width) returns v, every bit outside
\* [start, start+width-1] is unchanged, and every field that does not overlap
\* it extracts the value it had before.
C18_FieldsDoNotInterfere ==
    [][(reg_call'[1] = "insert_field" /\ reg_ret' = Some(TRUE)) =>
          LET start == reg_call'[2]
              width == reg_call'[3]
              v == reg_call'[4]
              field == start..(start + width - 1)
          IN  /\ extract_field(reg_value', reg_width, start, width) = Some(v)
              /\ reg_value' \ field = reg_value \ field
              /\ \A s \in 0..reg_width, w \in 0..reg_width :
                    (s + w <= reg_width /\ (s..(s + w - 1)) \cap field = {}) =>
                        extract_field(reg_value', reg_width, s, w)
                            = extract_field(reg_value, reg_width, s, w)]_vars

\* Reached: insert_field(1, 2, 1) on 0b111 of a 3-bit register succeeded and
\* gave 0b011.
C18_Witness ==
    /\ reg_width = 3
    /\ reg_value = {0, 1}
    /\ reg_call = <<"insert_field", 1, 2, 1>>
    /\ reg_ret = Some(TRUE)
    /\ reg_logged = <<LogEntry("INSERT_FIELD", FieldName(1, 2), {0, 1, 2}, {0, 1}, 3)>>

-----------------------------------------------------------------------------
(* OutOfOrderProcessor: dependencies                                       *)

\* The instructions that a step places on an execution unit.
Started ==
    {id \in Range(execution_units') : id # 0 /\ id \notin Range(execution_units)}

\* C19: no instruction is placed on an execution unit while one of its source
\* registers is marked busy, so an instruction never starts executing before
\* every earlier-issued instruction that writes one of its source registers
\* has committed.
C19_DependenciesRespected ==
    [][\A id \in Started :
          /\ OperandsReady(instrs'[id], register_busy')
          /\ \A j \in 1..(id - 1) :
                instrs'[j].dest_reg \in Range(instrs'[id].src_regs) =>
                    j \in Range(committed')]_vars

\* Reached: the second instruction executes, reading the register that the
\* first one wrote and committed.
C19_Witness ==
    /\ Len(instrs) >= 2
    /\ instrs[1].dest_reg \in Range(instrs[2].src_regs)
    /\ 1 \in Range(committed)
    /\ 2 \in Range(execution_units)

-----------------------------------------------------------------------------
(* count_ones: claims                                                      *)

\* C20: for every non-negative n the Kernighan loop (n &= n - 1 until n is 0)
\* ends after exactly as many iterations as n has set bits and returns that
\* count, which count_ones_basic, the shift-and-mask loop and the lookup table
\* return too.
C20_KernighanCount ==
    <>(/\ co_pc = "done"
       /\ co_count = Cardinality(BitsOf(co_n))
       /\ \A f \in {"kernighan", "basic", "shift", "lookup"} :
             co_out[f] = Cardinality(BitsOf(co_n)))

\* Reached: 170 = 0b10101010 counted in four iterations, past the lookup
\* table.
C20_Witness ==
    /\ co_pc = "done"
    /\ co_n = 170
    /\ co_cur = {}
    /\ co_count = 4
    /\ co_out["lookup"] = 4

=============================================================================
